---- MODULE Spec2Model ----
(***************************************************************************)
(* A model of the recommendation core of the Kalshi trading backend:       *)
(*   - PerformanceTracker   (backend/app/performance_tracking.py)          *)
(*   - the recommendation cache files of the two recommendation systems    *)
(*     (backend/app/enhanced_ai_recommendations.py, ai_recommendations.py) *)
(*   - recommendation generation: the strategy scorers, the rule-based     *)
(*     and hybrid models and the StrategyManager                           *)
(*     (backend/app/trading_strategies.py, strategy_integration.py,        *)
(*      ai_models/rule_based_model.py, ai_models/hybrid_model.py)          *)
(* Prices are in cents and costs in cents, as the integers the code's      *)
(* float arithmetic on integer cent prices yields.                         *)
(* Python None is the empty sequence <<>> and a present value v is <<v>>,  *)
(* so that optional fields compare without mixing types.                   *)
(***************************************************************************)
EXTENDS Integers, Sequences, FiniteSets, TLC

VARIABLES
    recommendations,  \* performance_data["recommendations"]: dict strategy -> list, in insertion order
    performance,      \* performance_data["performance"]: dict strategy -> aggregate
    saved_file,       \* performance_data.json as last written by _save_performance_data
    ret,              \* what the last tracker call returned: "None", "True" or "False"
    report,           \* what the last get_performance_by_timeframe call returned
    now,              \* int(time.time())
    cache_files,      \* cache_dir/recommendations/{strategy}_{risk_level}.json, per key
    lookup,           \* the last _get_cached_recommendations call and what it returned
    request,          \* a session of the enhanced system: markets, feed, strategy, risk level
    response,         \* what the last get_recommendations call returned
    calls,            \* how many get_recommendations calls were made
    scored,           \* a market list handed to the scorers, and what each made of it
    blended,          \* what the hybrid model made of the list and of the OpenAI answers
    yolo,             \* a YOLOTradingMode instance, its trading threads and its history file
    disk,             \* the text of one cache file, the writes in flight on it and the last read
    social,           \* a KalshiSocialFeed instance and what its last get_social_feed call did
    client            \* a KalshiApiClient instance and the _make_request call it is in

vars == <<recommendations, performance, saved_file, ret, report, now,
          cache_files, lookup, request, response, calls, scored, blended, yolo, disk,
          social, client>>

\* the state of the tracker, of the cache and of the generation
tracker_vars == <<recommendations, performance, saved_file, ret, report>>
cache_vars == <<cache_files, lookup>>
blend_vars == <<request, response, calls>>
scorer_vars == <<scored, blended>>
yolo_vars == <<yolo>>
disk_vars == <<disk>>
social_vars == <<social>>
client_vars == <<client>>

None == <<>>
Some(v) == <<v>>

Range(seq) == {seq[i] : i \in 1..Len(seq)}

RECURSIVE SumSeq(_)
SumSeq(seq) == IF seq = <<>> THEN 0 ELSE Head(seq) + SumSeq(Tail(seq))

RECURSIVE SelectSeqIdx(_, _, _)
\* the elements of seq whose index is in keep, in order (a list comprehension)
SelectSeqIdx(seq, keep, i) ==
    IF i > Len(seq) THEN <<>>
    ELSE (IF i \in keep THEN <<seq[i]>> ELSE <<>>) \o SelectSeqIdx(seq, keep, i + 1)

RECURSIVE InsertByKey(_, _)
\* x = <<key, element>> put behind every pair whose key is not larger: a stable insertion
InsertByKey(sorted, x) ==
    IF sorted = <<>> THEN <<x>>
    ELSE IF x[1] < Head(sorted)[1] THEN <<x>> \o sorted
    ELSE <<Head(sorted)>> \o InsertByKey(Tail(sorted), x)

RECURSIVE SortPairs(_)
SortPairs(pairs) ==
    IF pairs = <<>> THEN <<>>
    ELSE InsertByKey(SortPairs(SubSeq(pairs, 1, Len(pairs) - 1)), pairs[Len(pairs)])

\* Python's sorted(seq, key=...), ascending in keys[i] and stable; sorted(..., reverse=True)
\* is stable too, so it is StableSort under the negated key
StableSort(seq, keys) ==
    LET sorted == SortPairs([i \in 1..Len(seq) |-> <<keys[i], seq[i]>>])
    IN [i \in 1..Len(seq) |-> sorted[i][2]]

(***************************************************************************)
(* PerformanceTracker                                                      *)
(***************************************************************************)

\* the most records the ledger holds in the model
MaxRecords == 2

\* the second at which the tracker calls of the model happen
StartTime == 1

Statuses == {"open", "closed", "expired"}

\* exit prices the caller passes (None: no exit price given)
ExitPrices == {None, Some(40), Some(50)}

\* notes the caller passes
NotesArgs == {None, Some("settled")}

\* ids the caller names in update_recommendation_status
RecommendationIds == {"rec_1", "rec_2"}

\* the recommendation dictionaries handed to record_recommendation
RecInputs == {
    [id |-> "rec_1", market_id |-> "KXBTC-T1", strategy |-> "momentum", action |-> "YES",
     probability |-> 45, target_exit |-> 60, stop_loss |-> 35, confidence |-> "High"],
    [id |-> "rec_2", market_id |-> "KXBTC-T2", strategy |-> "momentum", action |-> "NO",
     probability |-> 50, target_exit |-> 35, stop_loss |-> 60, confidence |-> "Medium"],
    [id |-> "rec_1", market_id |-> "KXETH-T1", strategy |-> "arbitrage", action |-> "NO",
     probability |-> 40, target_exit |-> 35, stop_loss |-> 45, confidence |-> "Medium"]
}

Strategies == {r.strategy : r \in RecInputs}

\* the records of one strategy ([] when the strategy has no list yet)
RecordsOf(strategy) ==
    LET ks == {k \in 1..Len(recommendations) : recommendations[k].strategy = strategy}
    IN IF ks = {} THEN <<>> ELSE recommendations[CHOOSE k \in ks : TRUE].records

\* every record of the ledger, strategy by strategy
AllPositions ==
    UNION {{<<k, i>> : i \in 1..Len(recommendations[k].records)} : k \in 1..Len(recommendations)}

RecordAt(p) == recommendations[p[1]].records[p[2]]

TotalRecords == Cardinality(AllPositions)

\* the strategy of a recommendation dictionary whose "strategy" is null: Python's None,
\* which recommendation.get("strategy", "unknown") returns as it is
NoneStrategy == "<None>"

\* json.dump writes a dictionary key that is None as the string "null"; a string stays
JsonKey(key) == IF key = NoneStrategy THEN "null" ELSE key

\* _save_performance_data: json.dump of performance_data, the strategies being dictionary
\* keys; the values of the records are written as they are
SavePerformanceData(recs, perf) ==
    Some([recommendations |->
              [k \in 1..Len(recs) |-> [recs[k] EXCEPT !.strategy = JsonKey(@)]],
          performance |->
              [key \in {JsonKey(strategy) : strategy \in DOMAIN perf} |->
                  perf[CHOOSE strategy \in DOMAIN perf : JsonKey(strategy) = key]]])

\* _load_performance_data: json.load of the file, the empty ledger without a file
LoadPerformanceData(file) ==
    IF file = None THEN [recommendations |-> <<>>, performance |-> <<>>] ELSE file[1]

\* sum(1 for rec in records if rec[field] == value)
Count(records, field, value) ==
    Cardinality({i \in 1..Len(records) : records[i][field] = value})

\* sum(profits) / len(profits) if profits else 0, kept as the exact quotient num/den
Average(amounts) ==
    IF amounts = <<>> THEN [num |-> 0, den |-> 1]
    ELSE [num |-> SumSeq(amounts), den |-> Len(amounts)]

\* (num / den) * 100 if den > 0 else 0, kept as the exact quotient
Percentage(num, den) ==
    IF den > 0 THEN [num |-> num * 100, den |-> den] ELSE [num |-> 0, den |-> 1]

\* [rec["profit_loss"] for rec in records if rec["result"] == result and rec["profit_loss"] is not None]
ProfitLossOf(records, result) ==
    LET keep == {i \in 1..Len(records) :
                    records[i].result = result /\ records[i].profit_loss # None}
        kept == SelectSeqIdx(records, keep, 1)
    IN [i \in 1..Len(kept) |-> kept[i].profit_loss[1]]

\* the aggregate _update_strategy_performance stores for a strategy
ComputeAggregate(strategy, records) ==
    LET win_count == Count(records, "result", "win")
        loss_count == Count(records, "result", "loss")
        open_count == Count(records, "status", "open")
        profits == ProfitLossOf(records, "win")
        losses == ProfitLossOf(records, "loss")
    IN [strategy |-> strategy,
        win_count |-> win_count,
        loss_count |-> loss_count,
        open_count |-> open_count,
        win_rate |-> Percentage(win_count, win_count + loss_count),
        avg_profit |-> Average(profits),
        avg_loss |-> Average(losses),
        total_profit_loss |-> SumSeq(profits) + SumSeq(losses),
        accuracy |-> Percentage(win_count, Count(records, "status", "closed")),
        last_updated |-> now]

\* _update_strategy_performance: the stored aggregates after recomputing one strategy
UpdateStrategyPerformance(strategy, recs, perf) ==
    LET ks == {k \in 1..Len(recs) : recs[k].strategy = strategy}
    IN IF ks = {} THEN perf
       ELSE LET records == recs[CHOOSE k \in ks : TRUE].records
            IN [s \in DOMAIN perf \cup {strategy} |->
                   IF s = strategy THEN ComputeAggregate(strategy, records) ELSE perf[s]]

\* the record record_recommendation builds from a recommendation dictionary
NewRecord(recommendation) ==
    [id |-> recommendation.id,
     market_id |-> recommendation.market_id,
     strategy |-> recommendation.strategy,
     action |-> recommendation.action,
     entry_price |-> recommendation.probability,
     target_exit |-> recommendation.target_exit,
     stop_loss |-> recommendation.stop_loss,
     confidence |-> recommendation.confidence,
     timestamp |-> now,
     status |-> "open",
     exit_price |-> None,
     exit_timestamp |-> None,
     result |-> "null",
     profit_loss |-> None,
     notes |-> ""]

\* the ledger with a record appended to its strategy's list (created when missing)
AppendRecord(recs, record) ==
    LET ks == {k \in 1..Len(recs) : recs[k].strategy = record.strategy}
    IN IF ks = {}
       THEN Append(recs, [strategy |-> record.strategy, records |-> <<record>>])
       ELSE [recs EXCEPT ![CHOOSE k \in ks : TRUE].records = Append(@, record)]

record_recommendation(recommendation) ==
    /\ recommendations' = AppendRecord(recommendations, NewRecord(recommendation))
    /\ saved_file' = SavePerformanceData(recommendations', performance)
    /\ ret' = "None"
    /\ UNCHANGED <<performance, report, now, cache_vars, blend_vars, scorer_vars, yolo_vars, disk_vars,
                   social_vars, client_vars>>

\* PerformanceTracker(): a new instance takes the ledger from the file
load_performance_data ==
    /\ recommendations' = LoadPerformanceData(saved_file).recommendations
    /\ performance' = LoadPerformanceData(saved_file).performance
    /\ ret' = "None"
    /\ UNCHANGED <<saved_file, report, now, cache_vars, blend_vars, scorer_vars, yolo_vars,
                   disk_vars, social_vars, client_vars>>

\* record_recommendation({}): "if not recommendation: return"
record_empty_recommendation ==
    /\ ret' = "None"
    /\ UNCHANGED <<recommendations, performance, saved_file, report, now, cache_vars, blend_vars,
                   scorer_vars, yolo_vars, disk_vars, social_vars, client_vars>>

\* Outcome with the NO branch comparing like the YES branch
OutcomeSameComparison(action, entry_price, exit_price) ==
    IF action = "YES"
    THEN [result |-> IF exit_price > entry_price THEN "win" ELSE "loss",
          profit_loss |-> exit_price - entry_price]
    ELSE [result |-> IF exit_price > entry_price THEN "win" ELSE "loss",
          profit_loss |-> entry_price - exit_price]

\* result and profit_loss of a record closed at exit_price
Outcome(action, entry_price, exit_price) ==
    IF action = "YES"
    THEN [result |-> IF exit_price > entry_price THEN "win" ELSE "loss",
          profit_loss |-> exit_price - entry_price]
    ELSE [result |-> IF exit_price < entry_price THEN "win" ELSE "loss",
          profit_loss |-> entry_price - exit_price]

\* no record of the ledger has the id
NoMatch(recommendation_id) ==
    \A k \in 1..Len(recommendations) :
        \A i \in 1..Len(recommendations[k].records) :
            recommendations[k].records[i].id # recommendation_id

\* record i of the k-th strategy is the one the nested loops reach first with the id
IsFirstMatch(k, i, recommendation_id) ==
    /\ recommendations[k].records[i].id = recommendation_id
    /\ \A j \in 1..(i - 1) : recommendations[k].records[j].id # recommendation_id
    /\ \A h \in 1..(k - 1) :
           \A j \in 1..Len(recommendations[h].records) :
               recommendations[h].records[j].id # recommendation_id

\* UpdatedRecord that also overwrites the entry price with the exit price
UpdatedRecordOverwritingEntry(rec, status, exit_price, notes) ==
    LET r1 == [rec EXCEPT !.status = status]
        r2 == IF exit_price # None
              THEN LET o == Outcome(rec.action, rec.entry_price, exit_price[1])
                   IN [r1 EXCEPT !.exit_price = exit_price,
                                 !.entry_price = exit_price[1],
                                 !.exit_timestamp = Some(now),
                                 !.result = o.result,
                                 !.profit_loss = Some(o.profit_loss)]
              ELSE r1
    IN IF notes # None /\ notes[1] # "" THEN [r2 EXCEPT !.notes = notes[1]] ELSE r2

\* the matched record after the assignments of update_recommendation_status
UpdatedRecord(rec, status, exit_price, notes) ==
    LET r1 == [rec EXCEPT !.status = status]
        r2 == IF exit_price # None
              THEN LET o == Outcome(rec.action, rec.entry_price, exit_price[1])
                   IN [r1 EXCEPT !.exit_price = exit_price,
                                 !.exit_timestamp = Some(now),
                                 !.result = o.result,
                                 !.profit_loss = Some(o.profit_loss)]
              ELSE r1
    IN IF notes # None /\ notes[1] # "" THEN [r2 EXCEPT !.notes = notes[1]] ELSE r2

\* the not-found exit that recomputes and reports success all the same
RecommendationNotFoundReportingSuccess ==
    /\ ret' = "True"
    /\ UNCHANGED <<recommendations, performance, saved_file, report, now, cache_vars, blend_vars,
                   scorer_vars, yolo_vars, disk_vars, social_vars, client_vars>>

\* the exit of update_recommendation_status when the loops matched nothing: return False
RecommendationNotFound ==
    /\ ret' = "False"
    /\ UNCHANGED <<recommendations, performance, saved_file, report, now, cache_vars, blend_vars,
                   scorer_vars, yolo_vars, disk_vars, social_vars, client_vars>>

update_recommendation_status(recommendation_id, status, exit_price, notes) ==
    IF NoMatch(recommendation_id)
    THEN RecommendationNotFound
    ELSE \E k \in 1..Len(recommendations) : \E i \in 1..Len(recommendations[k].records) :
            /\ IsFirstMatch(k, i, recommendation_id)
            /\ recommendations' = [recommendations EXCEPT ![k].records[i] =
                                       UpdatedRecord(@, status, exit_price, notes)]
            /\ performance' = UpdateStrategyPerformance(recommendations[k].strategy,
                                                        recommendations', performance)
            /\ saved_file' = SavePerformanceData(recommendations', performance')
            /\ ret' = "True"
            /\ UNCHANGED <<report, now, cache_vars, blend_vars, scorer_vars, yolo_vars, disk_vars,
                           social_vars, client_vars>>

\* get_strategy_performance: the stored aggregate, or zeros for a strategy without one
get_strategy_performance(strategy) ==
    IF strategy \notin DOMAIN performance
    THEN [strategy |-> strategy, win_count |-> 0, loss_count |-> 0, open_count |-> 0,
          win_rate |-> [num |-> 0, den |-> 1], avg_profit |-> [num |-> 0, den |-> 1],
          avg_loss |-> [num |-> 0, den |-> 1], total_profit_loss |-> 0,
          accuracy |-> [num |-> 0, den |-> 1], last_updated |-> now]
    ELSE performance[strategy]

\* the default of get_recommendations' limit parameter
DefaultLimit == 100

\* the timeframes get_performance_by_timeframe knows
Timeframes == {"day", "week", "month", "all"}

\* timedelta(days=1), timedelta(weeks=1) and timedelta(days=30) in seconds
DaySeconds == 86400
WeekSeconds == 604800
MonthSeconds == 2592000

\* cutoff_timestamp of get_performance_by_timeframe at time t
CutoffTimestamp(timeframe, t) ==
    IF timeframe = "day" THEN Some(t - DaySeconds)
    ELSE IF timeframe = "week" THEN Some(t - WeekSeconds)
    ELSE IF timeframe = "month" THEN Some(t - MonthSeconds)
    ELSE None

RECURSIVE AllRecommendations(_)
\* the lists of every strategy one after the other, in the dictionary's order
AllRecommendations(recs) ==
    IF recs = <<>> THEN <<>> ELSE Head(recs).records \o AllRecommendations(Tail(recs))

\* list.sort(key=lambda x: x["timestamp"], reverse=True): newest first, and stable
SortNewestFirst(records) ==
    StableSort(records, [i \in 1..Len(records) |-> 0 - records[i].timestamp])

\* PerformanceTracker.get_recommendations; strategy and status are None or Some(name)
GetRecommendations(recs, strategy, status, limit, offset) ==
    LET collected == IF strategy # None
                     THEN (LET ks == {k \in 1..Len(recs) : recs[k].strategy = strategy[1]}
                           IN IF ks = {} THEN <<>> ELSE recs[CHOOSE k \in ks : TRUE].records)
                     ELSE AllRecommendations(recs)
        filtered == IF status # None
                    THEN SelectSeqIdx(collected,
                             {i \in 1..Len(collected) : collected[i].status = status[1]}, 1)
                    ELSE collected
        sorted == SortNewestFirst(filtered)
    IN SubSeq(sorted, offset + 1,
              IF offset + limit < Len(sorted) THEN offset + limit ELSE Len(sorted))

\* the records get_performance_by_timeframe computes its metrics over
TimeframeRecords(recs, strategy, timeframe, t) ==
    LET found == GetRecommendations(recs, strategy, None, DefaultLimit, 0)
        cutoff_timestamp == CutoffTimestamp(timeframe, t)
    IN IF cutoff_timestamp # None /\ cutoff_timestamp[1] # 0
       THEN SelectSeqIdx(found,
                {i \in 1..Len(found) : found[i].timestamp >= cutoff_timestamp[1]}, 1)
       ELSE found

\* the dictionary get_performance_by_timeframe returns at time t
PerformanceByTimeframe(recs, strategy, timeframe, t) ==
    LET records == TimeframeRecords(recs, strategy, timeframe, t)
        win_count == Count(records, "result", "win")
        loss_count == Count(records, "result", "loss")
        profits == ProfitLossOf(records, "win")
        losses == ProfitLossOf(records, "loss")
    IN [timeframe |-> timeframe,
        strategy |-> IF strategy # None THEN strategy[1] ELSE "all",
        win_count |-> win_count,
        loss_count |-> loss_count,
        open_count |-> Count(records, "status", "open"),
        win_rate |-> Percentage(win_count, win_count + loss_count),
        avg_profit |-> Average(profits),
        avg_loss |-> Average(losses),
        total_profit_loss |-> SumSeq(profits) + SumSeq(losses),
        recommendation_count |-> Len(records),
        last_updated |-> t]

get_performance_by_timeframe(strategy, timeframe) ==
    /\ report' = Some(PerformanceByTimeframe(recommendations, strategy, timeframe, now))
    /\ UNCHANGED <<recommendations, performance, saved_file, ret, now, cache_vars,
                   blend_vars, scorer_vars, yolo_vars, disk_vars, social_vars, client_vars>>

\* time passes between two tracker calls
tracker_clock(seconds) ==
    /\ now' = now + seconds
    /\ UNCHANGED <<tracker_vars, cache_vars, blend_vars, scorer_vars, yolo_vars, disk_vars,
                   social_vars, client_vars>>


(***************************************************************************)
(* Recommendation cache                                                    *)
(* Both recommendation systems keep one JSON file per (strategy,           *)
(* risk_level) under cache_dir/recommendations and share the directory.    *)
(***************************************************************************)

\* self.cache_ttl, in seconds (cache_ttl_minutes * 60 of the configuration)
cache_ttl == 2

\* the last second the clock of the model reaches
MaxTime == 4

\* valid_strategies and valid_risk_levels of EnhancedAIRecommendationSystem.get_recommendations
ValidStrategies ==
    {"momentum", "mean-reversion", "hybrid", "arbitrage", "volatility", "sentiment", "combined"}
ValidRiskLevels == {"low", "medium", "high"}

\* the strategies the callers of the model name: the valid ones and an unknown one
AskedStrategies == ValidStrategies \cup {"scalping"}

\* the risk levels the callers of the model name: the valid ones and an unknown one
AskedRiskLevels == ValidRiskLevels \cup {"extreme"}

\* a validation that forgets the risk level
ValidStrategyOnly(strategy, risk_level) == strategy \in ValidStrategies

\* the validation at the head of get_recommendations: no ValueError for these arguments
ValidArguments(strategy, risk_level) ==
    strategy \in ValidStrategies /\ risk_level \in ValidRiskLevels

\* the (strategy, risk_level) pairs the cache operations of the model are made for
CacheKeys == {<<"momentum", "medium">>, <<"hybrid", "low">>}

\* the recommendation lists the callers of the model store
CachePayloads == {
    <<>>,
    <<[market_id |-> "KXBTC-T1", action |-> "YES", confidence |-> "High"]>>}

\* cache_file: cache_dir / "recommendations" / f"{strategy}_{risk_level}.json"
CacheFile(strategy, risk_level) == <<strategy, risk_level>>

\* an empty cache directory
NoFiles == [key \in AskedStrategies \X AskedRiskLevels |-> None]

\* no lookup made since the cache or the clock last changed
NoLookup == [system |-> "none", key |-> <<"", "">>, value |-> None]

\* the dictionary get_recommendations of the enhanced system hands to _cache_recommendations
EnhancedCacheData(strategy, risk_level, recs, source, t) ==
    [recommendations |-> recs, timestamp |-> t, source |-> Some(source),
     strategy |-> strategy, risk_level |-> risk_level, complete |-> TRUE]

\* the dictionary _cache_recommendations of the basic system builds: no "source" key
BasicCacheData(strategy, risk_level, recs, t) ==
    [recommendations |-> recs, timestamp |-> t, source |-> None,
     strategy |-> strategy, risk_level |-> risk_level, complete |-> TRUE]

\* a file that open(..., "w") truncated and json.dump did not finish: json.load raises on it
TornFile ==
    Some([recommendations |-> <<>>, timestamp |-> 0, source |-> None,
          strategy |-> "", risk_level |-> "", complete |-> FALSE])

\* the expiry test with the boundary second counted as expired
IsExpiredAtTtl(cache_data, t) == t - cache_data.timestamp >= cache_ttl

\* time.time() - cache_data.get("timestamp", 0) > self.cache_ttl
IsExpired(cache_data, t) == t - cache_data.timestamp > cache_ttl

\* the file as _get_cached_recommendations reads it: None for no file, for a file that
\* does not parse and for an expired one
ReadCacheFile(files, strategy, risk_level, t) ==
    LET file == files[CacheFile(strategy, risk_level)]
    IN IF file = None THEN None
       ELSE IF ~file[1].complete THEN None
       ELSE IF IsExpired(file[1], t) THEN None
       ELSE file

\* EnhancedAIRecommendationSystem._get_cached_recommendations returns the whole dictionary
GetCachedRecommendations(files, strategy, risk_level, t) ==
    ReadCacheFile(files, strategy, risk_level, t)

\* AIRecommendationSystem._get_cached_recommendations returns cache_data.get("recommendations", [])
BasicGetCachedRecommendations(files, strategy, risk_level, t) ==
    LET file == ReadCacheFile(files, strategy, risk_level, t)
    IN IF file = None THEN None ELSE Some(file[1].recommendations)

get_cached_recommendations(strategy, risk_level) ==
    /\ lookup' = [system |-> "enhanced", key |-> CacheFile(strategy, risk_level),
                  value |-> GetCachedRecommendations(cache_files, strategy, risk_level, now)]
    /\ UNCHANGED <<cache_files, now, tracker_vars, blend_vars, scorer_vars, yolo_vars, disk_vars,
                   social_vars, client_vars>>

basic_get_cached_recommendations(strategy, risk_level) ==
    /\ lookup' = [system |-> "basic", key |-> CacheFile(strategy, risk_level),
                  value |-> BasicGetCachedRecommendations(cache_files, strategy, risk_level, now)]
    /\ UNCHANGED <<cache_files, now, tracker_vars, blend_vars, scorer_vars, yolo_vars, disk_vars,
                   social_vars, client_vars>>

\* EnhancedAIRecommendationSystem._cache_recommendations, the write succeeding
cache_recommendations(strategy, risk_level, data) ==
    /\ cache_files' = [cache_files EXCEPT ![CacheFile(strategy, risk_level)] = Some(data)]
    /\ lookup' = NoLookup
    /\ UNCHANGED <<now, tracker_vars, blend_vars, scorer_vars, yolo_vars, disk_vars,
                   social_vars, client_vars>>

\* AIRecommendationSystem._cache_recommendations, the write succeeding
basic_cache_recommendations(strategy, risk_level, recs) ==
    /\ cache_files' = [cache_files EXCEPT ![CacheFile(strategy, risk_level)] =
                           Some(BasicCacheData(strategy, risk_level, recs, now))]
    /\ lookup' = NoLookup
    /\ UNCHANGED <<now, tracker_vars, blend_vars, scorer_vars, yolo_vars, disk_vars,
                   social_vars, client_vars>>

\* _cache_recommendations of either system when open() raises: logged, the file as it was
cache_open_fails(strategy, risk_level) ==
    /\ lookup' = NoLookup
    /\ UNCHANGED <<cache_files, now, tracker_vars, blend_vars, scorer_vars, yolo_vars, disk_vars,
                   social_vars, client_vars>>

\* _cache_recommendations of either system when json.dump raises after open() truncated
cache_dump_fails(strategy, risk_level) ==
    /\ cache_files' = [cache_files EXCEPT ![CacheFile(strategy, risk_level)] = TornFile]
    /\ lookup' = NoLookup
    /\ UNCHANGED <<now, tracker_vars, blend_vars, scorer_vars, yolo_vars, disk_vars,
                   social_vars, client_vars>>

\* the threads that write one cache file: the YOLO worker and a request
MaxWriters == 2
Writers == 1..MaxWriters

\* the recommendation lists the writers of the file store
DiskPayloads == {
    <<>>,
    <<[market_id |-> "KXBTC-T1", action |-> "YES", confidence |-> "High"]>>,
    <<[market_id |-> "KXBTC-T1", action |-> "YES", confidence |-> "High"],
      [market_id |-> "KXBTC-T2", action |-> "NO", confidence |-> "Medium"]>>,
    <<[market_id |-> "KXBTC-T2", action |-> "NO", confidence |-> "Medium"],
      [market_id |-> "KXBTC-T1", action |-> "YES", confidence |-> "High"]>>}

\* the dictionary get_recommendations hands to _cache_recommendations
DiskData(recs, t) == [recommendations |-> recs, timestamp |-> t, source |-> "hybrid"]

\* json.dump(data, f, indent=2) as the pieces of text it writes, in order: the opening
\* brace, a piece per recommendation, the timestamp, the source and the closing brace
Dumps(data) ==
    <<[kind |-> "open", value |-> <<>>]>>
        \o [i \in 1..Len(data.recommendations) |->
               [kind |-> "recommendation", value |-> <<data.recommendations[i]>>]]
        \o <<[kind |-> "timestamp", value |-> <<data.timestamp>>],
             [kind |-> "source", value |-> <<data.source>>],
             [kind |-> "close", value |-> <<>>]>>

\* the pieces of kind "recommendation" that follow the opening brace
LeadingRecommendations(text) ==
    LET others == {i \in 2..Len(text) : text[i].kind # "recommendation"}
        last == IF others = {} THEN Len(text)
                ELSE (CHOOSE i \in others : \A j \in others : i <= j) - 1
    IN [i \in 1..(last - 1) |-> text[i + 1].value[1]]

\* json.load(f) on the text of the file: the dictionary, or None where it raises (an empty
\* text, a text that ends before the closing brace, text after the closing brace)
Loads(text) ==
    IF text = <<>> \/ text[1].kind # "open" THEN None
    ELSE LET recs == LeadingRecommendations(text)
             n == Len(recs) + 1
         IN IF /\ Len(text) = n + 3
               /\ text[n + 1].kind = "timestamp"
               /\ text[n + 2].kind = "source"
               /\ text[n + 3].kind = "close"
            THEN Some([recommendations |-> recs, timestamp |-> text[n + 1].value[1],
                       source |-> text[n + 2].value[1]])
            ELSE None

\* the text of the file after a write of pieces at offset: what lay beyond them stays,
\* and a file that ends before the offset is filled up to it with zero bytes
WrittenAt(text, offset, pieces) ==
    LET filled == IF Len(text) >= offset THEN SubSeq(text, 1, offset)
                  ELSE text \o [i \in 1..(offset - Len(text)) |->
                                  [kind |-> "zeros", value |-> <<>>]]
    IN filled \o pieces \o SubSeq(text, offset + Len(pieces) + 1, Len(text))

\* a writer that is not inside _cache_recommendations
NoWrite == [pc |-> "idle", data |-> DiskData(<<>>, 0), written |-> 0]

\* no cache file, nobody writing, nothing read; handed is every dictionary a writer was
\* handed so far
NoDisk ==
    [file |-> None, writers |-> [w \in Writers |-> NoWrite], handed |-> {},
     read |-> [done |-> FALSE, value |-> None, overlapped |-> FALSE]]

\* _cache_recommendations, line 364: open(cache_file, "w") creates or truncates the file
cache_write_opens(w, data) ==
    /\ disk.writers[w].pc = "idle"
    /\ disk' = [disk EXCEPT !.file = Some(<<>>),
                            !.writers[w] = [pc |-> "opened", data |-> data, written |-> 0],
                            !.handed = @ \cup {data}]
    /\ UNCHANGED <<now, tracker_vars, cache_vars, blend_vars, scorer_vars, yolo_vars,
                   social_vars, client_vars>>

\* _cache_recommendations, line 365, while json.dump runs: the buffer of f is full and is
\* written out at the position of f, the pieces up to upto
cache_write_flushes(w, upto) ==
    LET writer == disk.writers[w]
    IN /\ writer.pc = "opened"
       /\ writer.written < upto
       /\ upto < Len(Dumps(writer.data))
       /\ disk' = [disk EXCEPT !.file = Some(WrittenAt(@[1], writer.written,
                                                       SubSeq(Dumps(writer.data),
                                                              writer.written + 1, upto))),
                               !.writers[w].written = upto]
       /\ UNCHANGED <<now, tracker_vars, cache_vars, blend_vars, scorer_vars, yolo_vars,
                      social_vars, client_vars>>

\* _cache_recommendations, lines 364-365: json.dump returns and leaving the with block
\* writes out the rest of the text
cache_write_dumps(w) ==
    LET writer == disk.writers[w]
    IN /\ writer.pc = "opened"
       /\ disk' = [disk EXCEPT !.file = Some(WrittenAt(@[1], writer.written,
                                                       SubSeq(Dumps(writer.data),
                                                              writer.written + 1,
                                                              Len(Dumps(writer.data))))),
                               !.writers[w] = NoWrite]
       /\ UNCHANGED <<now, tracker_vars, cache_vars, blend_vars, scorer_vars, yolo_vars,
                      social_vars, client_vars>>

\* _cache_recommendations when json.dump raises after the pieces up to upto: leaving the
\* with block writes out what the buffer holds, and the exception is logged
cache_write_dump_fails(w, upto) ==
    LET writer == disk.writers[w]
    IN /\ writer.pc = "opened"
       /\ writer.written <= upto
       /\ upto < Len(Dumps(writer.data))
       /\ disk' = [disk EXCEPT !.file = Some(WrittenAt(@[1], writer.written,
                                                       SubSeq(Dumps(writer.data),
                                                              writer.written + 1, upto))),
                               !.writers[w] = NoWrite]
       /\ UNCHANGED <<now, tracker_vars, cache_vars, blend_vars, scorer_vars, yolo_vars,
                      social_vars, client_vars>>

\* _get_cached_recommendations on the file: None without a file, for a text json.load
\* raises on and for an expired dictionary
cache_read ==
    LET cache_data == IF disk.file = None THEN None ELSE Loads(disk.file[1])
    IN /\ disk' = [disk EXCEPT !.read =
                      [done |-> TRUE,
                       value |-> IF cache_data = None THEN None
                                 ELSE IF now - cache_data[1].timestamp > cache_ttl THEN None
                                 ELSE cache_data,
                       overlapped |-> \E w \in Writers : disk.writers[w].pc = "opened"]]
       /\ UNCHANGED <<now, tracker_vars, cache_vars, blend_vars, scorer_vars, yolo_vars,
                      social_vars, client_vars>>

\* time passes
Tick ==
    /\ now < MaxTime
    /\ now' = now + 1
    /\ lookup' = NoLookup
    /\ UNCHANGED <<cache_files, tracker_vars, blend_vars, scorer_vars, yolo_vars, disk_vars,
                   social_vars, client_vars>>

(***************************************************************************)
(* Recommendation generation                                               *)
(* A market is the dictionary _get_filtered_market_data builds, with the   *)
(* series and the strike that the scorers parse out of its id carried      *)
(* beside the id.  A candidate is a recommendation dictionary; prices,     *)
(* probabilities, targets and costs are in cents.                          *)
(***************************************************************************)

\* the largest max_recommendations the callers of the model ask for
MaxCount == 2

\* the most get_recommendations calls in a run of the model
MaxCalls == 2

\* Python's seq[:n], for negative n as well
Prefix(seq, n) ==
    LET k == IF n >= 0 THEN n ELSE Len(seq) + n
    IN SubSeq(seq, 1, IF k < 0 THEN 0 ELSE IF k > Len(seq) THEN Len(seq) ELSE k)

\* Python's int(num / den): truncation towards zero
Trunc(num, den) == IF num >= 0 THEN num \div den ELSE 0 - ((0 - num) \div den)

Maximum(a, b) == IF a >= b THEN a ELSE b
Minimum(a, b) == IF a <= b THEN a ELSE b
Abs(a) == IF a >= 0 THEN a ELSE 0 - a

\* a recommendation dictionary; strategy "" is a dictionary without the "strategy" key
Candidate(market_id, action, contracts, probability, cost, confidence, strategy, target_exit, stop_loss) ==
    [market_id |-> market_id, action |-> action, contracts |-> contracts,
     probability |-> probability, cost |-> cost, confidence |-> confidence,
     strategy |-> strategy, target_exit |-> target_exit, stop_loss |-> stop_loss]

RECURSIVE CollectUntil(_, _, _)
\* the loop of the rule-based scorers: skip the markets without a candidate, append the
\* others and break once len(recommendations) >= max_recommendations
CollectUntil(cands, acc, max_recommendations) ==
    IF cands = <<>> THEN acc
    ELSE IF Head(cands) = None THEN CollectUntil(Tail(cands), acc, max_recommendations)
    ELSE LET acc2 == Append(acc, Head(cands)[1])
         IN IF Len(acc2) >= max_recommendations THEN acc2
            ELSE CollectUntil(Tail(cands), acc2, max_recommendations)

\* contracts of the momentum scorer by risk level
MomentumContracts(risk_level) ==
    IF risk_level = "low" THEN 1 ELSE IF risk_level = "medium" THEN 3 ELSE 5

\* what the momentum loop makes of one market: None where it continues
MomentumCandidate(market, risk_level) ==
    LET yes == market.yes_ask
        contracts == MomentumContracts(risk_level)
    IN IF yes > 65
       THEN Some(Candidate(market.id, "YES", contracts, yes, contracts * yes,
                           IF yes > 80 THEN "High" ELSE "Medium", "",
                           Minimum(yes + 15, 99), Maximum(yes - 10, 1)))
       ELSE IF yes < 35
       THEN Some(Candidate(market.id, "NO", contracts, 100 - yes, contracts * (100 - yes),
                           IF yes < 20 THEN "High" ELSE "Medium", "",
                           Maximum(yes - 15, 1), Minimum(yes + 10, 99)))
       ELSE None

GenerateMomentumRecommendations(markets, max_recommendations, risk_level) ==
    LET sorted_markets == StableSort(markets, [i \in 1..Len(markets) |-> 0 - markets[i].volume_24h])
        scanned == Prefix(sorted_markets, max_recommendations * 2)
    IN CollectUntil([i \in 1..Len(scanned) |-> MomentumCandidate(scanned[i], risk_level)],
                    <<>>, max_recommendations)

\* contracts of the mean-reversion scorer by risk level
MeanReversionContracts(risk_level) ==
    IF risk_level = "low" THEN 1 ELSE IF risk_level = "medium" THEN 2 ELSE 4

\* a mean-reversion loop that bets with the extreme instead of against it
MeanReversionWithTheExtreme(market, risk_level) ==
    LET yes == market.yes_ask
        contracts == MeanReversionContracts(risk_level)
    IN IF yes > 80
       THEN Some(Candidate(market.id, "YES", contracts, yes, contracts * yes,
                           IF yes > 90 THEN "Medium" ELSE "Low", "",
                           Minimum(yes + 20, 99), Maximum(yes - 5, 1)))
       ELSE IF yes < 20
       THEN Some(Candidate(market.id, "NO", contracts, 100 - yes, contracts * (100 - yes),
                           IF yes < 10 THEN "Medium" ELSE "Low", "",
                           Maximum(yes - 20, 1), Minimum(yes + 5, 99)))
       ELSE None

\* what the mean-reversion loop makes of one market: None where it continues
MeanReversionCandidate(market, risk_level) ==
    LET yes == market.yes_ask
        contracts == MeanReversionContracts(risk_level)
    IN IF yes > 80
       THEN Some(Candidate(market.id, "NO", contracts, 100 - yes, contracts * (100 - yes),
                           IF yes > 90 THEN "Medium" ELSE "Low", "",
                           Maximum(yes - 20, 1), Minimum(yes + 5, 99)))
       ELSE IF yes < 20
       THEN Some(Candidate(market.id, "YES", contracts, yes, contracts * yes,
                           IF yes < 10 THEN "Medium" ELSE "Low", "",
                           Minimum(yes + 20, 99), Maximum(yes - 5, 1)))
       ELSE None

GenerateMeanReversionRecommendations(markets, max_recommendations, risk_level) ==
    LET sorted_markets == StableSort(markets,
                              [i \in 1..Len(markets) |-> 0 - Abs(markets[i].yes_ask - 50)])
        scanned == Prefix(sorted_markets, max_recommendations * 2)
    IN CollectUntil([i \in 1..Len(scanned) |-> MeanReversionCandidate(scanned[i], risk_level)],
                    <<>>, max_recommendations)

\* RuleBasedRecommendationModel.generate_recommendations
RuleBasedGenerate(markets, strategy, max_recommendations, risk_level) ==
    IF strategy = "momentum"
    THEN GenerateMomentumRecommendations(markets, max_recommendations, risk_level)
    ELSE IF strategy = "mean-reversion"
    THEN GenerateMeanReversionRecommendations(markets, max_recommendations, risk_level)
    ELSE <<>>

\* confidence_order.get(confidence, 0)
ConfidenceRank(confidence) ==
    IF confidence = "High" THEN 3 ELSE IF confidence = "Medium" THEN 2
    ELSE IF confidence = "Low" THEN 1 ELSE 0

\* a momentum_count without its floor of 1
MomentumCountUnfloored(max_recommendations, risk_level) ==
    LET tenths == IF risk_level = "low" THEN 4 ELSE IF risk_level = "high" THEN 7 ELSE 5
    IN Trunc(max_recommendations * tenths, 10)

\* momentum_count of the hybrid split
MomentumCount(max_recommendations, risk_level) ==
    LET tenths == IF risk_level = "low" THEN 4 ELSE IF risk_level = "high" THEN 7 ELSE 5
    IN Maximum(1, Trunc(max_recommendations * tenths, 10))

MeanReversionCount(max_recommendations, risk_level) ==
    max_recommendations - MomentumCount(max_recommendations, risk_level)

\* "for rec in ...: rec["strategy"] = tag"
Tagged(recs, tag) == [i \in 1..Len(recs) |-> [recs[i] EXCEPT !.strategy = tag]]

RECURSIVE UniqueLoop(_, _, _)
\* the first loop over combined_recommendations: keep the first candidate of each market,
\* break once len(unique_recommendations) >= max_recommendations
UniqueLoop(combined, unique, max_recommendations) ==
    IF combined = <<>> THEN unique
    ELSE IF Head(combined).market_id \in {u.market_id : u \in Range(unique)}
    THEN UniqueLoop(Tail(combined), unique, max_recommendations)
    ELSE LET unique2 == Append(unique, Head(combined))
         IN IF Len(unique2) >= max_recommendations THEN unique2
            ELSE UniqueLoop(Tail(combined), unique2, max_recommendations)

RECURSIVE FillLoop(_, _, _)
\* the second loop: append the remaining candidates until the limit is reached
FillLoop(remaining, unique, max_recommendations) ==
    IF remaining = <<>> \/ Len(unique) >= max_recommendations THEN unique
    ELSE FillLoop(Tail(remaining), Append(unique, Head(remaining)), max_recommendations)

\* HybridRecommendationModel._generate_hybrid_strategy_recommendations; openai_momentum and
\* openai_mean_reversion are what the OpenAI model answered (<<>> when it is disabled)
GenerateHybridStrategyRecommendations(markets, max_recommendations, risk_level, openai_momentum, openai_mean_reversion) ==
    LET momentum_count == MomentumCount(max_recommendations, risk_level)
        mean_reversion_count == MeanReversionCount(max_recommendations, risk_level)
        momentum_recommendations ==
            IF openai_momentum = <<>> \/ Len(openai_momentum) < momentum_count
            THEN RuleBasedGenerate(markets, "momentum", momentum_count, risk_level)
            ELSE openai_momentum
        mean_reversion_recommendations ==
            IF openai_mean_reversion = <<>> \/ Len(openai_mean_reversion) < mean_reversion_count
            THEN RuleBasedGenerate(markets, "mean-reversion", mean_reversion_count, risk_level)
            ELSE openai_mean_reversion
        combined_recommendations ==
            Tagged(momentum_recommendations, "momentum")
                \o Tagged(mean_reversion_recommendations, "mean-reversion")
        unique_recommendations == UniqueLoop(combined_recommendations, <<>>, max_recommendations)
    IN IF Len(unique_recommendations) < max_recommendations
       THEN LET seen_market_ids == {u.market_id : u \in Range(unique_recommendations)}
                remaining_recs ==
                    SelectSeqIdx(combined_recommendations,
                                 {i \in 1..Len(combined_recommendations) :
                                     combined_recommendations[i].market_id \notin seen_market_ids}, 1)
                sorted_recs ==
                    StableSort(remaining_recs,
                               [i \in 1..Len(remaining_recs) |->
                                   0 - ConfidenceRank(remaining_recs[i].confidence)])
            IN FillLoop(sorted_recs, unique_recommendations, max_recommendations)
       ELSE unique_recommendations

\* HybridRecommendationModel.generate_recommendations
HybridGenerate(markets, strategy, max_recommendations, risk_level, openai_enabled, openai_momentum, openai_mean_reversion) ==
    IF strategy = "hybrid"
    THEN GenerateHybridStrategyRecommendations(
             markets, max_recommendations, risk_level,
             IF openai_enabled THEN openai_momentum ELSE <<>>,
             IF openai_enabled THEN openai_mean_reversion ELSE <<>>)
    ELSE LET openai_recommendations ==
                 IF ~openai_enabled THEN <<>>
                 ELSE IF strategy = "momentum" THEN openai_momentum ELSE openai_mean_reversion
         IN IF openai_recommendations # <<>> THEN openai_recommendations
            ELSE RuleBasedGenerate(markets, strategy, max_recommendations, risk_level)

\* HourlyMarketFilter.TARGET_SERIES, in the order the scorers scan it; market.series is the
\* first of them contained in market.id, "" when there is none
TARGET_SERIES == <<"KXNASDAQ100U", "KXINXU", "KXETHD", "KXETH", "KXBTCD", "KXBTC">>

RECURSIVE SeriesInOrder(_, _)
\* the keys of series_markets in insertion order
SeriesInOrder(markets, seen) ==
    IF markets = <<>> THEN <<>>
    ELSE IF Head(markets).series = "" \/ Head(markets).series \in seen
    THEN SeriesInOrder(Tail(markets), seen)
    ELSE <<Head(markets).series>> \o SeriesInOrder(Tail(markets), seen \cup {Head(markets).series})

\* series_markets[series]
MarketsOfSeries(markets, series) ==
    SelectSeqIdx(markets, {i \in 1..Len(markets) : markets[i].series = series}, 1)

\* sorted(markets, key=_extract_strike_price)
SortedByStrike(markets) == StableSort(markets, [i \in 1..Len(markets) |-> markets[i].strike])

\* a pair analysis that takes asks adding up to exactly 95 for an opportunity
PriceRangePairAtThreshold(market1, market2) ==
    LET market1_yes_price == market1.yes_ask
        market2_no_price == market2.no_ask
    IN IF market1_yes_price > 0 /\ market2_no_price > 0
          /\ market1_yes_price + market2_no_price <= 95
       THEN <<Candidate(market1.id, "YES", 1, market1_yes_price, market1_yes_price, "Medium",
                        "arbitrage", market1_yes_price + 5, market1_yes_price - 5),
              Candidate(market2.id, "NO", 1, 100 - market2_no_price, market2_no_price, "Medium",
                        "arbitrage", market2_no_price - 5, market2_no_price + 5)>>
       ELSE <<>>

\* the two candidates _analyze_price_range_arbitrage appends for one adjacent pair, or none
PriceRangePair(market1, market2) ==
    LET market1_yes_price == market1.yes_ask
        market2_no_price == market2.no_ask
        arb_profit == 100 - (market1_yes_price + market2_no_price)
        confidence == IF arb_profit > 10 THEN "High" ELSE "Medium"
    IN IF market1_yes_price > 0 /\ market2_no_price > 0
          /\ market1_yes_price + market2_no_price < 95
       THEN <<Candidate(market1.id, "YES", 1, market1_yes_price, market1_yes_price, confidence,
                        "arbitrage", market1_yes_price + 5, market1_yes_price - 5),
              Candidate(market2.id, "NO", 1, 100 - market2_no_price, market2_no_price, confidence,
                        "arbitrage", market2_no_price - 5, market2_no_price + 5)>>
       ELSE <<>>

\* the two candidates _analyze_index_arbitrage appends for one adjacent pair, or none
IndexPair(market1, market2) ==
    LET market1_yes_price == market1.yes_ask
        market2_yes_price == market2.yes_ask
    IN IF market1_yes_price > 0 /\ market2_yes_price > 0
          /\ market1_yes_price < market2_yes_price - 5
       THEN <<Candidate(market1.id, "YES", 1, market1_yes_price, market1_yes_price, "Medium",
                        "arbitrage", market1_yes_price + 10, market1_yes_price - 5),
              Candidate(market2.id, "NO", 1, 100 - market2_yes_price, 100 - market2_yes_price,
                        "Medium", "arbitrage", market2_yes_price - 10, market2_yes_price + 5)>>
       ELSE <<>>

RECURSIVE AdjacentPairs(_, _, _)
\* "for i in range(len(sorted_markets) - 1)" of either pair analysis
AdjacentPairs(sorted_markets, i, kind) ==
    IF i >= Len(sorted_markets) THEN <<>>
    ELSE (IF kind = "price_range"
          THEN PriceRangePair(sorted_markets[i], sorted_markets[i + 1])
          ELSE IndexPair(sorted_markets[i], sorted_markets[i + 1]))
         \o AdjacentPairs(sorted_markets, i + 1, kind)

\* what ArbitrageStrategy.analyze extends recommendations with for one series
AnalyzeSeries(series, markets_list) ==
    IF Len(markets_list) < 2 THEN <<>>
    ELSE IF series \in {"KXETH", "KXBTC"}
    THEN AdjacentPairs(SortedByStrike(markets_list), 1, "price_range")
    ELSE IF series \in {"KXNASDAQ100U", "KXINXU"}
    THEN AdjacentPairs(SortedByStrike(markets_list), 1, "index")
    ELSE <<>>

RECURSIVE AnalyzeEachSeries(_, _)
AnalyzeEachSeries(markets, order) ==
    IF order = <<>> THEN <<>>
    ELSE AnalyzeSeries(Head(order), MarketsOfSeries(markets, Head(order)))
         \o AnalyzeEachSeries(markets, Tail(order))

\* ArbitrageStrategy.analyze
ArbitrageAnalyze(markets) == AnalyzeEachSeries(markets, SeriesInOrder(markets, {}))

RECURSIVE SimulatedPrices(_, _)
\* VolatilityStrategy._generate_simulated_historical_data for one market: ten prices, each
\* the one before moved by (i % 3 - 1) * 5 and clamped to 5..95
SimulatedPrices(base_price, i) ==
    IF i >= 10 THEN <<>>
    ELSE LET price == Maximum(5, Minimum(95, base_price + ((i % 3) - 1) * 5))
         IN <<price>> \o SimulatedPrices(price, i + 1)

\* all(prices[i] <= prices[i+1]) over the last five prices, and the same with >=
IsUptrend(recent_prices) ==
    \A i \in 1..(Len(recent_prices) - 1) : recent_prices[i] <= recent_prices[i + 1]
IsDowntrend(recent_prices) ==
    \A i \in 1..(Len(recent_prices) - 1) : recent_prices[i] >= recent_prices[i + 1]

\* VolatilityStrategy._calculate_volatility in exact arithmetic: with n prices of sum s and
\* sum of squares q, the sample variance is v / (n * (n - 1)) for v = n * q - s * s, and
\* the comparisons on std_dev are comparisons of squares; mean_price is kept to the cent
\* below.  On the simulated prices std_dev is never 0 and never above 7.5.
CalculateVolatility(market, historical_prices) ==
    LET n == Len(historical_prices)
        s == SumSeq(historical_prices)
        q == SumSeq([i \in 1..n |-> historical_prices[i] * historical_prices[i]])
        v == n * q - s * s
        d == n * market.yes_bid - s
        recent_prices == IF n >= 5 THEN SubSeq(historical_prices, n - 4, n) ELSE historical_prices
        is_uptrend == IsUptrend(recent_prices)
        is_downtrend == IsDowntrend(recent_prices)
    IN [current_price |-> market.yes_bid,
        mean_price |-> s \div n,
        is_uptrend |-> is_uptrend,
        is_high_volatility |-> IF n > 1 THEN 4 * v > 225 * n * (n - 1) ELSE FALSE,
        expect_reversion |->
            /\ IF n > 1 THEN 4 * d * d * (n - 1) > 9 * n * v ELSE 4 * d * d > 225 * n * n
            /\ ~(is_uptrend \/ is_downtrend),
        above_band |-> d > 0 /\ (IF n > 1 THEN d * d * (n - 1) > n * v ELSE d > 5 * n),
        below_band |-> d < 0 /\ (IF n > 1 THEN d * d * (n - 1) > n * v ELSE 0 - d > 5 * n)]

\* the candidate VolatilityStrategy.analyze appends for one market, or none
VolatilityCandidate(market, historical_prices) ==
    LET data == CalculateVolatility(market, historical_prices)
        buy_no(target_exit, stop_loss) ==
            <<Candidate(market.id, "NO", 1, 100 - market.yes_bid, market.no_ask, "Medium",
                        "volatility", target_exit, stop_loss)>>
        buy_yes(target_exit, stop_loss) ==
            <<Candidate(market.id, "YES", 1, market.yes_ask, market.yes_ask, "Medium",
                        "volatility", target_exit, stop_loss)>>
    IN IF ~data.is_high_volatility THEN <<>>
       ELSE IF data.expect_reversion
       THEN (IF data.above_band THEN buy_no(data.mean_price, data.current_price + 10)
             ELSE IF data.below_band THEN buy_yes(data.mean_price, data.current_price - 10)
             ELSE <<>>)
       ELSE IF data.is_uptrend
       THEN buy_yes(data.current_price + 10, data.current_price - 5)
       ELSE buy_no(data.current_price - 10, data.current_price + 5)

RECURSIVE VolatilityAnalyze(_)
\* VolatilityStrategy.analyze(markets), the history simulated as StrategyManager has it
VolatilityAnalyze(markets) ==
    IF markets = <<>> THEN <<>>
    ELSE VolatilityCandidate(Head(markets), SimulatedPrices(Head(markets).yes_bid, 0))
         \o VolatilityAnalyze(Tail(markets))

RECURSIVE VolatilityAnalyzeGiven(_, _)
\* VolatilityStrategy.analyze(markets, historical_data) with a non-empty historical_data: a
\* market whose id is no key of it is skipped
VolatilityAnalyzeGiven(markets, historical_data) ==
    IF markets = <<>> THEN <<>>
    ELSE (IF Head(markets).id \in DOMAIN historical_data
          THEN VolatilityCandidate(Head(markets), historical_data[Head(markets).id])
          ELSE <<>>)
         \o VolatilityAnalyzeGiven(Tail(markets), historical_data)

\* the candidate SentimentStrategy.analyze appends for one market, or none
SentimentCandidate(market, series_sentiment) ==
    IF market.series = "" \/ market.series \notin DOMAIN series_sentiment THEN <<>>
    ELSE LET sentiment_data == series_sentiment[market.series]
             confidence == IF sentiment_data.confidence = "high" THEN "High" ELSE "Medium"
         IN IF sentiment_data.confidence = "low" THEN <<>>
            ELSE IF sentiment_data.sentiment \in {"bullish", "slightly_bullish"}
                    /\ sentiment_data.buy_percentage >= 60
            THEN <<Candidate(market.id, "YES", 1, market.yes_ask, market.yes_ask, confidence,
                             "sentiment", market.yes_ask + 10, market.yes_ask - 5)>>
            ELSE IF sentiment_data.sentiment \in {"bearish", "slightly_bearish"}
                    /\ sentiment_data.sell_percentage >= 60
            THEN <<Candidate(market.id, "NO", 1, 100 - market.yes_bid, market.no_ask, confidence,
                             "sentiment", market.no_ask + 10, market.no_ask - 5)>>
            ELSE <<>>

RECURSIVE SentimentEachMarket(_, _)
SentimentEachMarket(markets, series_sentiment) ==
    IF markets = <<>> THEN <<>>
    ELSE SentimentCandidate(Head(markets), series_sentiment)
         \o SentimentEachMarket(Tail(markets), series_sentiment)

\* SentimentStrategy.analyze: nothing when the feed reports an error or has no insights
SentimentAnalyze(markets, feed_data) ==
    IF feed_data.status = "error" \/ ~feed_data.insights THEN <<>>
    ELSE SentimentEachMarket(markets, feed_data.series_sentiment)

\* StrategyManager._filter_by_risk_level
FilterByRiskLevel(recs, risk_level) ==
    IF risk_level = "high" THEN recs
    ELSE IF risk_level = "low"
    THEN SelectSeqIdx(recs, {i \in 1..Len(recs) : recs[i].confidence = "High"}, 1)
    ELSE SelectSeqIdx(recs, {i \in 1..Len(recs) : recs[i].confidence # "Low"}, 1)

\* StrategyManager._sort_by_confidence: sorted(key=(rank, -cost), reverse=True), that is
\* ascending and stable in (-rank, cost); a cost stays below 1000 cents
SortByConfidence(recs) ==
    StableSort(recs, [i \in 1..Len(recs) |->
                         (0 - ConfidenceRank(recs[i].confidence)) * 1000 + recs[i].cost])

\* the scorers StrategyManager.get_recommendations runs for a strategy, in order
ScorersOf(strategy) ==
    IF strategy = "combined" THEN <<"arbitrage", "volatility", "sentiment">>
    ELSE IF strategy \in {"arbitrage", "volatility", "sentiment"} THEN <<strategy>>
    ELSE <<>>

\* StrategyManager.get_recommendations, no scorer raising
StrategyManagerRecommendations(strategy, markets, max_recommendations, risk_level, feed_data) ==
    IF markets = <<>> THEN <<>>
    ELSE IF strategy \notin {"arbitrage", "volatility", "sentiment", "combined"} THEN <<>>
    ELSE LET arb_recs == IF strategy \in {"arbitrage", "combined"}
                         THEN ArbitrageAnalyze(markets) ELSE <<>>
             vol_recs == IF strategy \in {"volatility", "combined"}
                         THEN VolatilityAnalyze(markets) ELSE <<>>
             sent_recs == IF strategy \in {"sentiment", "combined"}
                          THEN SentimentAnalyze(markets, feed_data) ELSE <<>>
         IN Prefix(SortByConfidence(FilterByRiskLevel(arb_recs \o vol_recs \o sent_recs,
                                                      risk_level)),
                   max_recommendations)

\* config "ai": cache_recommendations and use_enhanced_model as the configuration ships them
cache_enabled == TRUE
use_enhanced_model == TRUE

\* a market dictionary
Market(id, series, strike, yes_ask, no_ask, yes_bid, volume_24h) ==
    [id |-> id, series |-> series, strike |-> strike, yes_ask |-> yes_ask,
     no_ask |-> no_ask, yes_bid |-> yes_bid, volume_24h |-> volume_24h]

\* the market snapshots the Kalshi client returns in the model: none, three strikes of a
\* range series, three series at extreme and middling prices, two strikes of an index series
MarketSnapshots == {
    <<>>,
    <<Market("KXBTC-25-T100", "KXBTC", 100, 20, 82, 18, 300),
      Market("KXBTC-25-T200", "KXBTC", 200, 40, 62, 38, 200),
      Market("KXBTC-25-T300", "KXBTC", 300, 60, 42, 58, 100)>>,
    <<Market("KXETHD-25-T10", "KXETHD", 10, 85, 17, 83, 100),
      Market("KXBTCD-25-T20", "KXBTCD", 20, 70, 32, 68, 300),
      Market("KXBTC-25-T30", "KXBTC", 30, 8, 94, 6, 200)>>,
    <<Market("KXINXU-25-T10", "KXINXU", 10, 12, 90, 10, 200),
      Market("KXINXU-25-T20", "KXINXU", 20, 95, 7, 93, 100)>>}

\* what KalshiSocialFeed.get_social_feed returns in the model: an error, or insights with
\* a bullish KXBTC and a bearish KXINXU
SocialFeeds == {
    [status |-> "error", insights |-> FALSE, series_sentiment |-> [s \in {} |-> None]],
    [status |-> "success", insights |-> TRUE,
     series_sentiment |->
         [s \in {"KXBTC", "KXINXU"} |->
             IF s = "KXBTC"
             THEN [sentiment |-> "bullish", confidence |-> "high",
                   buy_percentage |-> 75, sell_percentage |-> 25]
             ELSE [sentiment |-> "slightly_bearish", confidence |-> "medium",
                   buy_percentage |-> 35, sell_percentage |-> 65]]]}

\* recommendation dictionaries an OpenAI model answers with
OpenAIFirst == Candidate("KXBTC-25-T100", "NO", 1, 70, 70, "Low", "momentum", 15, 40)
OpenAISecond == Candidate("KXBTC-25-T200", "YES", 2, 40, 80, "High", "mean-reversion", 60, 35)

\* what the OpenAI models answer to a call: the enhanced model, and the plain model asked
\* for momentum and for mean-reversion.  Nothing bounds the length of an answer or keeps
\* its markets apart.
NoAnswers == [enhanced |-> <<>>, openai_momentum |-> <<>>, openai_mean_reversion |-> <<>>]
EnhancedAnswers ==
    [enhanced |-> <<OpenAIFirst, OpenAISecond, OpenAIFirst>>,
     openai_momentum |-> <<>>, openai_mean_reversion |-> <<>>]
PlainAnswers ==
    [enhanced |-> <<>>, openai_momentum |-> <<OpenAIFirst, OpenAISecond>>,
     openai_mean_reversion |-> <<OpenAISecond>>]

FeedError == CHOOSE f \in SocialFeeds : f.status = "error"
FeedActive == CHOOSE f \in SocialFeeds : f.status = "success"

\* what surrounds the system during a session
Surrounding(feed_data, openai_enabled, answers, failure) ==
    [feed_data |-> feed_data, openai_enabled |-> openai_enabled, answers |-> answers,
     failure |-> failure]

\* what goes wrong in a session, whenever a call gets there: the market fetch raises, the
\* sentiment scorer raises, the hybrid model raises, or the cache file cannot be opened or
\* cannot be written to the end
Failures == {"market_data", "sentiment_scorer", "hybrid_model", "cache_open", "cache_dump"}

\* the sessions of the model: no API key with the feed down or up, an API key with the
\* enhanced or the plain model answering, and one failure each
Surroundings ==
    {Surrounding(FeedError, FALSE, NoAnswers, "none"),
     Surrounding(FeedActive, FALSE, NoAnswers, "none"),
     Surrounding(FeedError, TRUE, EnhancedAnswers, "none"),
     Surrounding(FeedError, TRUE, PlainAnswers, "none")}
    \cup {Surrounding(FeedActive, FALSE, NoAnswers, failure) : failure \in Failures}

\* the max_recommendations the callers of the model pass (the enhanced route bounds it not)
MaxCounts == 0..MaxCount

\* a session: the markets and surroundings, and the strategy and risk level asked for
Session(markets, strategy, risk_level, surrounding) ==
    [markets |-> markets, strategy |-> strategy, risk_level |-> risk_level,
     feed_data |-> surrounding.feed_data, openai_enabled |-> surrounding.openai_enabled,
     answers |-> surrounding.answers, failure |-> surrounding.failure]

NoRequest == Session(<<>>, "", "", Surrounding(FeedError, FALSE, NoAnswers, "none"))

NoResponse ==
    [status |-> "none", error |-> "", recommendations |-> <<>>, source |-> "",
     cached |-> FALSE, strategy |-> "", risk_level |-> "", max_recommendations |-> 0,
     force_refresh |-> FALSE, timestamp |-> 0, fetched |-> FALSE, tried |-> <<>>]

\* the call raised: ValueError from the validation, KeyError from a cache file without
\* "source", or the exception of the market fetch, re-raised
Raised(error, asked, max_recommendations, force_refresh, fetched) ==
    [status |-> "raised", error |-> error, recommendations |-> <<>>, source |-> "",
     cached |-> FALSE, strategy |-> asked.strategy, risk_level |-> asked.risk_level,
     max_recommendations |-> max_recommendations, force_refresh |-> force_refresh,
     timestamp |-> 0, fetched |-> fetched, tried |-> <<>>]

\* the dictionary get_recommendations returns, with the max_recommendations and
\* force_refresh it was asked with, whether the call fetched the markets, and the sources
\* it tried, in order
Returned(recs, source, cached, asked, max_recommendations, force_refresh, timestamp, fetched, tried) ==
    [status |-> "returned", error |-> "", recommendations |-> recs, source |-> source,
     cached |-> cached, strategy |-> asked.strategy, risk_level |-> asked.risk_level,
     max_recommendations |-> max_recommendations, force_refresh |-> force_refresh,
     timestamp |-> timestamp, fetched |-> fetched, tried |-> tried]

\* lines 129-182 of get_recommendations: the recommendations and their source
Generated(req, max_recommendations) ==
    LET strategy == req.strategy
        risk_level == req.risk_level
        answers == req.answers
        failure == req.failure
    IN IF strategy \in {"arbitrage", "volatility", "sentiment", "combined"}
       THEN IF failure = "sentiment_scorer" /\ "sentiment" \in Range(ScorersOf(strategy))
            THEN [recommendations |-> <<>>, source |-> "rule_based",
                  tried |-> <<"strategy_manager">>]
            ELSE [recommendations |->
                      StrategyManagerRecommendations(strategy, req.markets, max_recommendations,
                                                     risk_level, req.feed_data),
                  source |-> strategy, tried |-> <<"strategy_manager">>]
       ELSE LET asked == IF req.openai_enabled /\ use_enhanced_model
                         THEN <<"enhanced_openai">> ELSE <<>>
                enhanced == IF req.openai_enabled /\ use_enhanced_model
                            THEN answers.enhanced ELSE <<>>
            IN IF enhanced # <<>>
               THEN [recommendations |-> enhanced, source |-> "enhanced_openai",
                     tried |-> asked]
               ELSE IF failure = "hybrid_model"
               THEN [recommendations |->
                         RuleBasedGenerate(req.markets, strategy, max_recommendations, risk_level),
                     source |-> "rule_based",
                     tried |-> asked \o <<"hybrid", "rule_based">>]
               ELSE [recommendations |->
                         HybridGenerate(req.markets, strategy, max_recommendations, risk_level,
                                        req.openai_enabled, answers.openai_momentum,
                                        answers.openai_mean_reversion),
                     source |-> "hybrid", tried |-> asked \o <<"hybrid">>]

\* a _cache_recommendations that stores nothing
CacheNeverWritten(files, strategy, risk_level, data, failure) == files

\* a _cache_recommendations that empties the cache directory when its write fails
CacheWipedOnFailure(files, strategy, risk_level, data, failure) ==
    IF failure \in {"cache_open", "cache_dump"} THEN NoFiles
    ELSE [files EXCEPT ![CacheFile(strategy, risk_level)] = Some(data)]

\* _cache_recommendations as get_recommendations calls it, under the failure of the call
CacheWritten(files, strategy, risk_level, data, failure) ==
    IF ~cache_enabled \/ failure = "cache_open" THEN files
    ELSE IF failure = "cache_dump"
    THEN [files EXCEPT ![CacheFile(strategy, risk_level)] = TornFile]
    ELSE [files EXCEPT ![CacheFile(strategy, risk_level)] = Some(data)]

\* EnhancedAIRecommendationSystem.get_recommendations(strategy, max_recommendations,
\* risk_level, force_refresh) in the session of the request
get_recommendations(strategy, max_recommendations, risk_level, force_refresh) ==
    /\ calls < MaxCalls
    /\ calls' = calls + 1
    /\ LET failure == request.failure
           asked == [request EXCEPT !.strategy = strategy, !.risk_level = risk_level]
       IN IF ~ValidArguments(strategy, risk_level)
          THEN /\ response' = Raised("ValueError", asked, max_recommendations, force_refresh, FALSE)
               /\ UNCHANGED cache_files
          ELSE LET cached_data ==
                       IF cache_enabled /\ ~force_refresh
                       THEN GetCachedRecommendations(cache_files, strategy, risk_level, now)
                       ELSE None
               IN IF cached_data # None
                  THEN /\ response' =
                              IF cached_data[1].source = None
                              THEN Raised("KeyError", asked, max_recommendations, force_refresh, FALSE)
                              ELSE Returned(Prefix(cached_data[1].recommendations,
                                                   max_recommendations),
                                            cached_data[1].source[1], TRUE, asked,
                                            max_recommendations, force_refresh,
                                            cached_data[1].timestamp, FALSE, <<>>)
                       /\ UNCHANGED cache_files
                  ELSE IF failure = "market_data"
                  THEN /\ response' = Raised("market_data", asked, max_recommendations, force_refresh, TRUE)
                       /\ UNCHANGED cache_files
                  ELSE IF request.markets = <<>>
                  THEN /\ response' = Returned(<<>>, "none", FALSE, asked,
                                               max_recommendations, force_refresh, now,
                                               TRUE, <<>>)
                       /\ UNCHANGED cache_files
                  ELSE LET result == Generated(asked, max_recommendations)
                       IN /\ response' = Returned(result.recommendations, result.source, FALSE,
                                                  asked, max_recommendations,
                                                  force_refresh, now, TRUE, result.tried)
                          /\ cache_files' =
                                 CacheWritten(cache_files, strategy, risk_level,
                                              EnhancedCacheData(strategy, risk_level,
                                                                result.recommendations,
                                                                result.source, now),
                                              failure)
    /\ UNCHANGED <<request, now, lookup, tracker_vars, scorer_vars, yolo_vars, disk_vars,
                   social_vars, client_vars>>

\* valid_strategies of AIRecommendationSystem.get_recommendations
BasicValidStrategies == {"momentum", "mean-reversion", "hybrid"}

\* AIRecommendationSystem.get_recommendations(strategy, max_recommendations, risk_level,
\* force_refresh) in the session of the request: it returns the list alone, so the
\* response carries no source and no timestamp
basic_get_recommendations(strategy, max_recommendations, risk_level, force_refresh) ==
    /\ calls < MaxCalls
    /\ calls' = calls + 1
    /\ LET failure == request.failure
           asked == [request EXCEPT !.strategy = strategy, !.risk_level = risk_level]
       IN IF strategy \notin BasicValidStrategies \/ risk_level \notin ValidRiskLevels
          THEN /\ response' = Raised("ValueError", asked, max_recommendations, force_refresh, FALSE)
               /\ UNCHANGED cache_files
          ELSE LET cached_recommendations ==
                       IF cache_enabled /\ ~force_refresh
                       THEN BasicGetCachedRecommendations(cache_files, strategy, risk_level, now)
                       ELSE None
               IN IF cached_recommendations # None /\ cached_recommendations # Some(<<>>)
                  THEN /\ response' = Returned(Prefix(cached_recommendations[1],
                                                      max_recommendations),
                                               "", TRUE, asked, max_recommendations,
                                               force_refresh, 0, FALSE, <<>>)
                       /\ UNCHANGED cache_files
                  ELSE IF failure \in {"market_data", "hybrid_model"}
                  THEN /\ response' = Raised(failure, asked, max_recommendations, force_refresh, TRUE)
                       /\ UNCHANGED cache_files
                  ELSE LET recs == HybridGenerate(request.markets, strategy,
                                                  max_recommendations, risk_level,
                                                  request.openai_enabled,
                                                  request.answers.openai_momentum,
                                                  request.answers.openai_mean_reversion)
                       IN /\ response' = Returned(recs, "", FALSE, asked, max_recommendations,
                                                  force_refresh, 0, TRUE, <<"hybrid">>)
                          /\ cache_files' =
                                 CacheWritten(cache_files, strategy, risk_level,
                                              BasicCacheData(strategy, risk_level, recs, now),
                                              failure)
    /\ UNCHANGED <<request, now, lookup, tracker_vars, scorer_vars, yolo_vars, disk_vars,
                   social_vars, client_vars>>

(***************************************************************************)
(* The scorers on their own                                                *)
(***************************************************************************)

\* the highest ask of a market, in cents
MaxPrice == 100

\* the ids of the range-series markets of the model, by strike rank
RangeMarketIds ==
    [KXBTC |-> <<"KXBTC-25-T100", "KXBTC-25-T200", "KXBTC-25-T300">>,
     KXETH |-> <<"KXETH-25-T100", "KXETH-25-T200", "KXETH-25-T300">>]

\* the (yes_ask, no_ask) quotes of the range markets of the model: no quote at all, a
\* missing side, extreme and middling prices, and asks that add up to 94, 95 and 96
Quotes == {<<0, 0>>, <<0, 60>>, <<10, 92>>, <<30, 60>>, <<47, 47>>, <<47, 48>>, <<48, 48>>,
           <<90, 12>>}

\* a market of a range series with the strike of its rank and a quote
RangeMarket(series, rank, quote) ==
    Market(RangeMarketIds[series][rank], series, rank * 100, quote[1], quote[2],
           Maximum(quote[1] - 2, 0), 100 * rank)

\* the market lists handed to the scorers: one market at every ask from 0 to MaxPrice,
\* two strikes of a range series in either order, and three strikes out of strike order
ScoredMarkets ==
    {<<Market("KXBTC-25-T100", "KXBTC", 100, yes_ask, MaxPrice - yes_ask, yes_ask, 100)>> :
        yes_ask \in 0..MaxPrice}
    \cup {<<RangeMarket(series, 1, lower), RangeMarket(series, 2, higher)>> :
            series \in {"KXBTC", "KXETH"}, lower \in Quotes, higher \in Quotes}
    \cup {<<RangeMarket(series, 2, higher), RangeMarket(series, 1, lower)>> :
            series \in {"KXBTC", "KXETH"}, lower \in Quotes, higher \in Quotes}
    \cup {<<RangeMarket("KXBTC", 3, highest), RangeMarket("KXBTC", 1, lower),
            RangeMarket("KXBTC", 2, higher)>> :
            lower \in Quotes, higher \in Quotes, highest \in {<<30, 60>>, <<48, 48>>}}

\* no market list scored
NoScore ==
    [markets |-> <<>>, risk_level |-> "", momentum |-> None, mean_reversion |-> None,
     arbitrage |-> None, historical_data |-> None, feed_data |-> FeedError,
     volatility |-> None, sentiment |-> None]

\* RuleBasedRecommendationModel._generate_momentum_recommendations on the market list
generate_momentum_recommendations(max_recommendations) ==
    /\ scored' = [scored EXCEPT !.momentum =
                     Some(GenerateMomentumRecommendations(scored.markets, max_recommendations,
                                                          scored.risk_level))]
    /\ UNCHANGED <<blended, now, tracker_vars, cache_vars, blend_vars, yolo_vars, disk_vars,
                   social_vars, client_vars>>

\* RuleBasedRecommendationModel._generate_mean_reversion_recommendations on the market list
generate_mean_reversion_recommendations(max_recommendations) ==
    /\ scored' = [scored EXCEPT !.mean_reversion =
                     Some(GenerateMeanReversionRecommendations(scored.markets,
                                                               max_recommendations,
                                                               scored.risk_level))]
    /\ UNCHANGED <<blended, now, tracker_vars, cache_vars, blend_vars, yolo_vars, disk_vars,
                   social_vars, client_vars>>

\* ArbitrageStrategy.analyze on the market list
arbitrage_analyze ==
    /\ scored' = [scored EXCEPT !.arbitrage = Some(ArbitrageAnalyze(scored.markets))]
    /\ UNCHANGED <<blended, now, tracker_vars, cache_vars, blend_vars, yolo_vars, disk_vars,
                   social_vars, client_vars>>

\* VolatilityStrategy.analyze on the market list, with the historical data handed in or,
\* without any, with the simulated one
volatility_analyze ==
    /\ scored' = [scored EXCEPT !.volatility =
                     Some(IF scored.historical_data = None
                          THEN VolatilityAnalyze(scored.markets)
                          ELSE VolatilityAnalyzeGiven(scored.markets,
                                                      scored.historical_data[1]))]
    /\ UNCHANGED <<blended, now, tracker_vars, cache_vars, blend_vars, yolo_vars, disk_vars,
                   social_vars, client_vars>>

\* SentimentStrategy.analyze on the market list, the social feed answering feed_data
sentiment_analyze ==
    /\ scored' = [scored EXCEPT !.sentiment =
                     Some(SentimentAnalyze(scored.markets, scored.feed_data))]
    /\ UNCHANGED <<blended, now, tracker_vars, cache_vars, blend_vars, yolo_vars, disk_vars,
                   social_vars, client_vars>>

\* the largest max_recommendations the hybrid split is taken of; up to here the float
\* product max_recommendations * 0.4 (0.5, 0.7) truncates like the exact product
MaxQuota == 60
QuotaCounts == 0..MaxQuota

\* a market at an ask, its volume falling with its strike rank
AskedMarket(rank, yes_ask) ==
    Market(RangeMarketIds["KXBTC"][rank], "KXBTC", rank * 100, yes_ask, 100 - yes_ask,
           Maximum(yes_ask - 2, 0), 400 - 100 * rank)

\* the market lists handed to the hybrid model: markets both sub-strategies propose (asks
\* above 80 or below 20), markets only momentum proposes, and markets neither proposes
HybridMarkets ==
    {<<AskedMarket(1, 90), AskedMarket(2, 10)>>,
     <<AskedMarket(1, 70), AskedMarket(2, 90), AskedMarket(3, 15)>>,
     <<AskedMarket(1, 85), AskedMarket(2, 30), AskedMarket(3, 5)>>,
     <<AskedMarket(1, 50)>>}

\* what the OpenAI model answers when asked for momentum and for mean-reversion: nothing
\* (or it is disabled or raises), the same market in both answers, and two markets each
HybridAnswers ==
    {[openai_momentum |-> <<>>, openai_mean_reversion |-> <<>>],
     [openai_momentum |-> <<OpenAIFirst>>, openai_mean_reversion |-> <<OpenAIFirst>>],
     [openai_momentum |-> <<OpenAIFirst, OpenAISecond>>,
      openai_mean_reversion |-> <<OpenAISecond, OpenAIFirst>>]}

\* nothing blended
NoBlend ==
    [openai_momentum |-> <<>>, openai_mean_reversion |-> <<>>, split |-> None,
     hybrid |-> None, runs |-> <<>>]

\* two of the phrases random.choice draws the rationale of a rule-based candidate from
Phrases == {1, 2}

\* the sources whose candidates carry a rationale drawn by random.choice
Phrased(source) == source \in {"hybrid", "rule_based"}

\* a rationale that also decides the confidence of its candidate
WithRationaleAndConfidence(recs, phrases) ==
    [i \in 1..Len(recs) |->
        [field \in DOMAIN recs[i] \cup {"rationale"} |->
            IF field = "rationale" THEN phrases[i]
            ELSE IF field = "confidence" /\ phrases[i] = 2 THEN "Low"
            ELSE recs[i][field]]]

\* the recommendation dictionaries of a run with their "rationale"
WithRationale(recs, phrases) ==
    [i \in 1..Len(recs) |->
        [field \in DOMAIN recs[i] \cup {"rationale"} |->
            IF field = "rationale" THEN phrases[i] ELSE recs[i][field]]]

\* one generation run of get_recommendations (lines 129-182) for the session asked, the
\* cache left aside: what it generates, every rationale as random.choice happens to draw it
generation_run(max_recommendations) ==
    LET generated == Generated(request, max_recommendations)
    IN /\ \E phrases \in [1..Len(generated.recommendations) ->
                              IF Phrased(generated.source) THEN Phrases ELSE {0}] :
             blended' = [blended EXCEPT !.runs =
                            Append(@, [max_recommendations |-> max_recommendations,
                                       source |-> generated.source,
                                       recommendations |->
                                           WithRationale(generated.recommendations,
                                                         phrases)])]
       /\ UNCHANGED <<scored, now, tracker_vars, cache_vars, blend_vars, yolo_vars, disk_vars,
                      social_vars, client_vars>>

\* the split of _generate_hybrid_strategy_recommendations by risk level
hybrid_split(max_recommendations) ==
    /\ blended' = [blended EXCEPT !.split =
                      Some([max_recommendations |-> max_recommendations,
                            momentum_count |->
                                MomentumCount(max_recommendations, scored.risk_level),
                            mean_reversion_count |->
                                MeanReversionCount(max_recommendations, scored.risk_level)])]
    /\ UNCHANGED <<scored, now, tracker_vars, cache_vars, blend_vars, yolo_vars, disk_vars,
                   social_vars, client_vars>>

\* HybridRecommendationModel._generate_hybrid_strategy_recommendations on the market list
generate_hybrid_strategy_recommendations(max_recommendations) ==
    /\ blended' = [blended EXCEPT !.hybrid =
                      Some([max_recommendations |-> max_recommendations,
                            recommendations |->
                                GenerateHybridStrategyRecommendations(
                                    scored.markets, max_recommendations, scored.risk_level,
                                    blended.openai_momentum,
                                    blended.openai_mean_reversion)])]
    /\ UNCHANGED <<scored, now, tracker_vars, cache_vars, blend_vars, yolo_vars, disk_vars,
                   social_vars, client_vars>>

(***************************************************************************)
(* YOLOTradingMode: start, stop and the trading loop.  Money is in cents;  *)
(* the clock counts ticks of five minutes, and the waits of 10 and 60      *)
(* seconds take no tick.                                                   *)
(***************************************************************************)

\* the last tick of the clock, and the trading threads one instance is followed through
MaxClock == 14
MaxThreads == 1

\* 3600 seconds, the 600 seconds between recommendation cycles and the 300 seconds
\* before a retry, in ticks
HourTicks == 12
CycleWait == 2
RetryWait == 1

\* the market ids of the model that contain one of TARGET_SERIES
TargetMarketIds == {"KXBTC-25-T100", "KXBTC-25-T200", "KXINXU-25-T10", "KXETH-25-T100"}

\* HourlyMarketFilter.is_target_market
IsTargetMarket(market_id) == market_id # "" /\ market_id \in TargetMarketIds

\* the lists recommendation_system.get_recommendations hands to the loop: none, two
\* tradable ones, one with a Low confidence and a market outside the target series, and
\* one with a cost above the cap per trade
YoloRecommendationSets ==
    {<<>>,
     <<Candidate("KXBTC-25-T100", "YES", 3, 90, 300, "High", "", 99, 80),
       Candidate("KXBTC-25-T200", "NO", 5, 80, 400, "Medium", "", 5, 30)>>,
     <<Candidate("KXINXU-25-T10", "YES", 2, 10, 200, "Low", "", 30, 5),
       Candidate("PRES-2028", "YES", 1, 90, 100, "High", "", 99, 80),
       Candidate("KXBTC-25-T200", "NO", 5, 80, 400, "Medium", "", 5, 30)>>,
     <<Candidate("KXETH-25-T100", "YES", 15, 80, 1200, "High", "", 95, 70),
       Candidate("KXBTC-25-T100", "YES", 3, 90, 300, "High", "", 99, 80)>>}

\* the arguments of start() in the model: a risk level, the cap per trade (0 is refused),
\* the trades per hour, the total cap, and whether market conditions are given
StartArguments ==
    [risk_level : {"medium", "high"}, max_spend_per_trade : {0, 1000},
     max_trades_per_hour : {1, 2}, max_total_spend : {500}, market_conditions : BOOLEAN]

\* a trading thread at the head of _trading_loop
NewThread(t) == [pc |-> "loop", wake |-> t, pending |-> <<>>]

\* YOLOTradingMode.__init__ at time t
NewYolo(t) ==
    [is_active |-> FALSE, stop_event |-> FALSE, stopping |-> FALSE, risk_level |-> "medium",
     max_spend_per_trade |-> 1000, max_trades_per_hour |-> 3, max_total_spend |-> 5000,
     market_conditions |-> FALSE, trade_history |-> <<>>, total_spent |-> 0,
     trades_this_hour |-> 0, last_hour_reset |-> t, history_file |-> None,
     threads |-> <<>>, status |-> ""]

\* _save_trade_history: the file keeps its content when there is no trade to save
SaveTradeHistory(y) ==
    IF y.trade_history = <<>> THEN y
    ELSE [y EXCEPT !.history_file =
             Some([trades |-> y.trade_history, total_spent |-> y.total_spent])]

\* YOLOTradingMode.start
start(args) ==
    /\ yolo' =
          IF yolo.is_active THEN [yolo EXCEPT !.status = "error"]
          ELSE IF \/ args.max_spend_per_trade <= 0
                  \/ args.max_trades_per_hour <= 0
                  \/ args.max_total_spend <= 0
          THEN [yolo EXCEPT !.status = "error"]
          ELSE [yolo EXCEPT !.risk_level = args.risk_level,
                            !.max_spend_per_trade = args.max_spend_per_trade,
                            !.max_trades_per_hour = args.max_trades_per_hour,
                            !.max_total_spend = args.max_total_spend,
                            !.market_conditions = args.market_conditions,
                            !.stop_event = FALSE,
                            !.total_spent = 0,
                            !.trades_this_hour = 0,
                            !.last_hour_reset = now,
                            !.is_active = TRUE,
                            !.threads = Append(yolo.threads, NewThread(now)),
                            !.status = "success"]
    /\ UNCHANGED <<now, tracker_vars, cache_vars, blend_vars, scorer_vars, disk_vars,
                   social_vars, client_vars>>

\* YOLOTradingMode.stop up to trading_thread.join(timeout=5.0)
stop ==
    /\ ~yolo.stopping
    /\ yolo' = IF ~yolo.is_active THEN [yolo EXCEPT !.status = "error"]
               ELSE [yolo EXCEPT !.stop_event = TRUE, !.stopping = TRUE]
    /\ UNCHANGED <<now, tracker_vars, cache_vars, blend_vars, scorer_vars, disk_vars,
                   social_vars, client_vars>>

\* YOLOTradingMode.stop after the join: the thread has ended or the five seconds are over
stop_returns ==
    /\ yolo.stopping
    /\ yolo' = SaveTradeHistory([yolo EXCEPT !.is_active = FALSE, !.stopping = FALSE,
                                             !.status = "success"])
    /\ UNCHANGED <<now, tracker_vars, cache_vars, blend_vars, scorer_vars, disk_vars,
                   social_vars, client_vars>>

\* the recommendations _get_recommendations keeps of those received, before sorting
Tradable(received, y) ==
    SelectSeqIdx(received,
                 {i \in 1..Len(received) :
                     /\ ~(received[i].confidence = "Low" /\ y.risk_level # "high")
                     /\ received[i].cost <= y.max_spend_per_trade
                     /\ \A k \in 1..Len(y.trade_history) :
                           y.trade_history[k].market_id # received[i].market_id
                     /\ IsTargetMarket(received[i].market_id)},
                 1)

\* YOLOTradingMode._get_recommendations for what the recommendation system returned
FilteredRecommendations(received, y) ==
    LET kept == Tradable(received, y)
        sorted == StableSort(kept, [i \in 1..Len(kept) |->
                                      0 - ConfidenceRank(kept[i].confidence)])
    IN Prefix(sorted, y.max_trades_per_hour - y.trades_this_hour)

\* one pass of "while not self.stop_event.is_set()" up to the for loop, by thread t, once
\* its wait is over or the stop event is set
trading_loop(t, conditions_met, received) ==
    /\ t \in 1..Len(yolo.threads)
    /\ yolo.threads[t].pc = "loop"
    /\ yolo.stop_event \/ yolo.threads[t].wake <= now
    /\ yolo' =
          IF yolo.stop_event THEN [yolo EXCEPT !.threads[t].pc = "done"]
          ELSE IF yolo.total_spent >= yolo.max_total_spend
          THEN [yolo EXCEPT !.stop_event = TRUE, !.threads[t].pc = "done"]
          ELSE LET reset == now - yolo.last_hour_reset >= HourTicks
                   y == IF reset
                        THEN [yolo EXCEPT !.trades_this_hour = 0, !.last_hour_reset = now]
                        ELSE yolo
                   filtered == FilteredRecommendations(received, y)
               IN IF y.trades_this_hour >= y.max_trades_per_hour
                  THEN [y EXCEPT !.threads[t].wake =
                                     now + (HourTicks - (now - y.last_hour_reset))]
                  ELSE IF y.market_conditions /\ ~conditions_met
                  THEN [y EXCEPT !.threads[t].wake = now + RetryWait]
                  ELSE IF filtered = <<>>
                  THEN [y EXCEPT !.threads[t].wake = now + RetryWait]
                  ELSE [y EXCEPT !.threads[t].pc = "trade", !.threads[t].pending = filtered]
    /\ UNCHANGED <<now, tracker_vars, cache_vars, blend_vars, scorer_vars, disk_vars,
                   social_vars, client_vars>>

\* the trade record of _execute_trade
Trade(recommendation) ==
    [timestamp |-> now, market_id |-> recommendation.market_id,
     action |-> recommendation.action, contracts |-> recommendation.contracts,
     cost |-> recommendation.cost]

\* whether _execute_trade returns a trade with status success
TradeSucceeds(recommendation, order_placed) ==
    /\ recommendation.market_id # ""
    /\ recommendation.action # ""
    /\ recommendation.contracts > 0
    /\ IsTargetMarket(recommendation.market_id)
    /\ order_placed

\* the thread leaves the for loop and waits for the next recommendation cycle
NextCycle(y, t) ==
    [y EXCEPT !.threads[t].pc = "loop", !.threads[t].pending = <<>>,
              !.threads[t].wake = now + CycleWait]

\* one pass of "for recommendation in recommendations" by thread t
execute_trade(t, order_placed) ==
    /\ t \in 1..Len(yolo.threads)
    /\ yolo.threads[t].pc = "trade"
    /\ LET recommendation == Head(yolo.threads[t].pending)
           rest == Tail(yolo.threads[t].pending)
           traded == SaveTradeHistory(
                         [yolo EXCEPT !.trade_history = Append(@, Trade(recommendation)),
                                      !.total_spent = @ + recommendation.cost,
                                      !.trades_this_hour = @ + 1])
           after == IF ~IsTargetMarket(recommendation.market_id) THEN yolo
                    ELSE IF TradeSucceeds(recommendation, order_placed) THEN traded
                    ELSE yolo
           breaks == /\ after # yolo
                     /\ \/ after.total_spent >= after.max_total_spend
                        \/ after.trades_this_hour >= after.max_trades_per_hour
       IN yolo' = IF yolo.stop_event THEN NextCycle(yolo, t)
                  ELSE IF breaks \/ rest = <<>> THEN NextCycle(after, t)
                  ELSE [after EXCEPT !.threads[t].pending = rest]
    /\ UNCHANGED <<now, tracker_vars, cache_vars, blend_vars, scorer_vars, disk_vars,
                   social_vars, client_vars>>

\* thread t has a step of _trading_loop to take at the present time: it is in the for
\* loop, or its stop_event.wait has returned (the timeout is over or the event is set)
Due(t) ==
    \/ yolo.threads[t].pc = "trade"
    \/ yolo.threads[t].pc = "loop" /\ (yolo.stop_event \/ yolo.threads[t].wake <= now)

\* five minutes pass while every trading thread waits
yolo_tick ==
    /\ now < MaxClock
    /\ \A t \in 1..Len(yolo.threads) : ~Due(t)
    /\ now' = now + 1
    /\ UNCHANGED <<tracker_vars, cache_vars, blend_vars, scorer_vars, yolo_vars, disk_vars,
                   social_vars, client_vars>>

(***************************************************************************)
(* KalshiSocialFeed.get_social_feed: one analysed feed kept in memory with *)
(* the time of its fetch.                                                  *)
(***************************************************************************)

\* self.cache_ttl of KalshiSocialFeed, in seconds
social_cache_ttl == 2

\* the most get_social_feed calls one instance is followed through
MaxFeedCalls == 3

\* what _analyze_feed_data returns for the feed fetched at time t: status success, with
\* insights
AnalyzedFeed(t) == [status |-> "success", timestamp |-> t, insights |-> TRUE]

\* the dictionary get_social_feed returns when the fetch failed and nothing is cached:
\* status error, no activities, empty insights
FeedErrorResult(t) == [status |-> "error", timestamp |-> t, insights |-> FALSE]

\* no get_social_feed call made yet
NoFeedCall == [force_refresh |-> FALSE, fetched |-> FALSE, failed |-> FALSE, ret |-> None]

\* KalshiSocialFeed.__init__
NewSocialFeed ==
    [cached_feed_data |-> None, last_fetch_time |-> 0, served |-> 0, call |-> NoFeedCall]

\* the refresh test with the boundary second counted as stale
NeedsRefreshAtTtl(feed, force_refresh, current_time) ==
    \/ feed.cached_feed_data = None
    \/ force_refresh
    \/ current_time - feed.last_fetch_time >= social_cache_ttl

\* not self.cached_feed_data or force_refresh or
\* current_time - self.last_fetch_time > self.cache_ttl
NeedsRefresh(feed, force_refresh, current_time) ==
    \/ feed.cached_feed_data = None
    \/ force_refresh
    \/ current_time - feed.last_fetch_time > social_cache_ttl

\* KalshiSocialFeed.get_social_feed(force_refresh), the fetch (or the analysis) raising
\* when fetch_fails; `call` keeps what the call did and returned
get_social_feed(force_refresh, fetch_fails) ==
    /\ LET current_time == now
           served == [social EXCEPT !.served = @ + 1]
       IN social' =
              IF ~NeedsRefresh(social, force_refresh, current_time)
              THEN [served EXCEPT !.call = [force_refresh |-> force_refresh,
                                            fetched |-> FALSE, failed |-> FALSE,
                                            ret |-> social.cached_feed_data]]
              ELSE IF ~fetch_fails
              THEN [served EXCEPT !.cached_feed_data = Some(AnalyzedFeed(current_time)),
                                  !.last_fetch_time = current_time,
                                  !.call = [force_refresh |-> force_refresh,
                                            fetched |-> TRUE, failed |-> FALSE,
                                            ret |-> Some(AnalyzedFeed(current_time))]]
              ELSE IF social.cached_feed_data # None
              THEN [served EXCEPT !.call = [force_refresh |-> force_refresh,
                                            fetched |-> TRUE, failed |-> TRUE,
                                            ret |-> social.cached_feed_data]]
              ELSE [served EXCEPT !.call = [force_refresh |-> force_refresh,
                                            fetched |-> TRUE, failed |-> TRUE,
                                            ret |-> Some(FeedErrorResult(current_time))]]
    /\ UNCHANGED <<now, tracker_vars, cache_vars, blend_vars, scorer_vars, yolo_vars,
                   disk_vars, client_vars>>

\* a KalshiSocialFeed instance as its constructor leaves it
SocialIdle == social = NewSocialFeed

(***************************************************************************)
(* KalshiApiClient._make_request: the retry loop around one HTTP request.  *)
(***************************************************************************)

\* the largest max_retries a client of the model is constructed with (the configuration
\* ships 3), and the HTTP attempts after which the model stops following a request
MaxRetries == 3
MaxAttempts == 6

\* retry_delay in seconds: the configuration ships 1
RetryDelays == {1, 2}

\* what an HTTP attempt comes to: a response whose JSON is returned, a 429 response, or
\* a requests.exceptions.RequestException (a connection error, or raise_for_status on
\* another error status)
AttemptOutcomes == {"ok", "rate_limited", "request_error"}

\* KalshiApiClient.__init__(max_retries, retry_delay), no request made
NewClient(max_retries, retry_delay) ==
    [max_retries |-> max_retries, retry_delay |-> retry_delay, pc |-> "idle",
     retries |-> 0, attempts |-> 0, slept |-> 0, seen |-> {}, last |-> "", error |-> ""]

\* a loop test that admits one attempt more
LoopContinuesOnceMore(retries, max_retries) == retries <= max_retries + 1

\* while retries <= self.max_retries
LoopContinues(retries, max_retries) == retries <= max_retries

\* _make_request up to the loop: the request is signed, or _sign_request raises ValueError
make_request(signed) ==
    /\ client.pc # "running"
    /\ client' = IF signed
                 THEN [NewClient(client.max_retries, client.retry_delay) EXCEPT
                           !.pc = "running"]
                 ELSE [NewClient(client.max_retries, client.retry_delay) EXCEPT
                           !.pc = "raised", !.error = "ValueError"]
    /\ UNCHANGED <<now, tracker_vars, cache_vars, blend_vars, scorer_vars, yolo_vars,
                   disk_vars, social_vars>>

\* the request after the loop test failed: raise RuntimeError
AfterLoop(c) ==
    IF LoopContinues(c.retries, c.max_retries) THEN c
    ELSE [c EXCEPT !.pc = "raised", !.error = "RuntimeError"]

\* one pass of the while loop: an HTTP attempt and what the loop does with its outcome
http_attempt(outcome) ==
    /\ client.pc = "running"
    /\ LoopContinues(client.retries, client.max_retries)
    /\ LET tried == [client EXCEPT !.attempts = @ + 1, !.last = outcome,
                                   !.seen = @ \cup {outcome}]
       IN client' =
              IF outcome = "ok" THEN [tried EXCEPT !.pc = "returned"]
              ELSE IF outcome = "rate_limited"
              THEN AfterLoop([tried EXCEPT
                                  !.slept = @ + client.retry_delay * (2 ^ client.retries),
                                  !.retries = @ + 1])
              ELSE IF client.retries < client.max_retries
              THEN AfterLoop([tried EXCEPT !.slept = @ + client.retry_delay,
                                           !.retries = @ + 1])
              ELSE [tried EXCEPT !.pc = "raised", !.error = "RequestException"]
    /\ UNCHANGED <<now, tracker_vars, cache_vars, blend_vars, scorer_vars, yolo_vars,
                   disk_vars, social_vars>>

\* a KalshiApiClient as the configuration constructs it, no request made
ClientIdle == client = NewClient(MaxRetries, 1)

(***************************************************************************)
(* Specifications                                                          *)
(***************************************************************************)

\* the tracker's variables while another part of the backend runs
TrackerIdle ==
    /\ recommendations = <<>>
    /\ performance = <<>>
    /\ saved_file = None
    /\ ret = "None"
    /\ report = None

\* the generation's variables while another part of the backend runs
BlendIdle ==
    /\ request = NoRequest
    /\ response = NoResponse
    /\ calls = 0

\* the scorers' variable while another part of the backend runs
ScorerIdle == scored = NoScore /\ blended = NoBlend

\* the cache file followed piece by piece while another part of the backend runs
DiskIdle == disk = NoDisk

\* the trading mode's variable while another part of the backend runs
YoloIdle == yolo = NewYolo(StartTime)

\* _load_performance_data with no performance_data.json on disk
TrackerInit ==
    /\ recommendations = <<>>
    /\ performance = <<>>
    /\ saved_file = None
    /\ ret = "None"
    /\ report = None
    /\ now = StartTime
    /\ DiskIdle
    /\ SocialIdle
    /\ ClientIdle
    /\ cache_files = NoFiles
    /\ lookup = NoLookup
    /\ BlendIdle
    /\ ScorerIdle
    /\ YoloIdle

TrackerNext ==
    \/ \E recommendation \in RecInputs :
          TotalRecords < MaxRecords /\ record_recommendation(recommendation)
    \/ record_empty_recommendation
    \/ \E recommendation_id \in RecommendationIds, status \in Statuses,
          exit_price \in ExitPrices, notes \in NotesArgs :
            update_recommendation_status(recommendation_id, status, exit_price, notes)

SpecTracker == TrackerInit /\ [][TrackerNext]_vars

\* the recommendation dictionaries the route hands on: those of RecInputs and one whose
\* "strategy" is null
LedgerFileInputs ==
    RecInputs \cup
    {[id |-> "rec_2", market_id |-> "KXETH-T2", strategy |-> NoneStrategy, action |-> "YES",
      probability |-> 45, target_exit |-> 60, stop_loss |-> 35, confidence |-> "Low"]}

\* the tracker, and new instances of it that load the file
LedgerFileNext ==
    \/ \E recommendation \in LedgerFileInputs :
          TotalRecords < MaxRecords /\ record_recommendation(recommendation)
    \/ \E recommendation_id \in RecommendationIds, status \in Statuses,
          exit_price \in ExitPrices, notes \in NotesArgs :
            update_recommendation_status(recommendation_id, status, exit_price, notes)
    \/ load_performance_data

SpecLedgerFile == TrackerInit /\ [][LedgerFileNext]_vars

\* A ledger that outgrows one page of get_recommendations. Its first EarlyRecords records
\* are of either strategy and may be closed, and the clock may jump once while the ledger
\* is that short; the later records are momentum's. A session ends with one report.
LedgerRecords == 101
EarlyRecords == 1

\* the time that passes in a jump of the clock: a day, and a second more than a week
ClockJumps == {DaySeconds, WeekSeconds + 1}

\* the recommendation dictionaries recorded at the present length of the ledger
LedgerInputs ==
    IF TotalRecords < EarlyRecords THEN {r \in RecInputs : r.id = "rec_1"}
    ELSE {r \in RecInputs : r.id = "rec_2"}

\* the strategy argument of get_performance_by_timeframe
AskedLedgers == {None} \cup {Some(strategy) : strategy \in Strategies}

TimeframeNext ==
    \/ \E recommendation \in LedgerInputs :
          /\ report = None
          /\ TotalRecords < LedgerRecords
          /\ record_recommendation(recommendation)
    \/ \E recommendation_id \in RecommendationIds, exit_price \in ExitPrices \ {None} :
          /\ report = None
          /\ TotalRecords <= EarlyRecords
          /\ update_recommendation_status(recommendation_id, "closed", exit_price, None)
    \/ \E seconds \in ClockJumps :
          /\ report = None
          /\ now = StartTime
          /\ TotalRecords <= EarlyRecords
          /\ tracker_clock(seconds)
    \/ \E strategy \in AskedLedgers, timeframe \in Timeframes :
          /\ report = None
          /\ get_performance_by_timeframe(strategy, timeframe)

SpecTimeframe == TrackerInit /\ [][TimeframeNext]_vars

\* the cache directory as the constructors leave it: created, empty
CacheInit ==
    /\ cache_files = NoFiles
    /\ lookup = NoLookup
    /\ now = StartTime
    /\ DiskIdle
    /\ SocialIdle
    /\ ClientIdle
    /\ TrackerIdle
    /\ BlendIdle
    /\ ScorerIdle
    /\ YoloIdle

CacheNext ==
    \/ \E key \in CacheKeys : get_cached_recommendations(key[1], key[2])
    \/ \E key \in CacheKeys : basic_get_cached_recommendations(key[1], key[2])
    \/ \E key \in CacheKeys, recs \in CachePayloads :
          cache_recommendations(key[1], key[2],
                                EnhancedCacheData(key[1], key[2], recs, "hybrid", now))
    \/ \E key \in CacheKeys, recs \in CachePayloads :
          basic_cache_recommendations(key[1], key[2], recs)
    \/ \E key \in CacheKeys : cache_open_fails(key[1], key[2])
    \/ \E key \in CacheKeys : cache_dump_fails(key[1], key[2])
    \/ Tick

SpecCache == CacheInit /\ [][CacheNext]_vars

\* a session of the enhanced system: the markets, the feed, the configuration and the
\* valid (strategy, risk_level) its callers ask for
BlendInit ==
    /\ \E markets \in MarketSnapshots, strategy \in ValidStrategies,
          risk_level \in ValidRiskLevels, surrounding \in Surroundings :
            request = Session(markets, strategy, risk_level, surrounding)
    /\ response = NoResponse
    /\ calls = 0
    /\ cache_files = NoFiles
    /\ lookup = NoLookup
    /\ now = StartTime
    /\ DiskIdle
    /\ SocialIdle
    /\ ClientIdle
    /\ TrackerIdle
    /\ ScorerIdle
    /\ YoloIdle

\* the calls of a session name its strategy and risk level, or an unknown one
BlendNext ==
    \/ \E strategy \in {s \in AskedStrategies : s = request.strategy \/ s \notin ValidStrategies},
          risk_level \in {r \in AskedRiskLevels : r = request.risk_level \/ r \notin ValidRiskLevels},
          max_recommendations \in MaxCounts, force_refresh \in BOOLEAN :
            get_recommendations(strategy, max_recommendations, risk_level, force_refresh)
    \/ (0 < calls /\ calls < MaxCalls /\ Tick)

SpecBlend == BlendInit /\ [][BlendNext]_vars

\* the strategies of the sessions followed call by call: one answered by the models and
\* one answered by the strategy manager
SessionStrategies == {"momentum", "combined"}

\* the risk levels of the sessions followed call by call
SessionRiskLevels == {"medium"}

\* the cache directory a session finds: one entry of another key, stored by an earlier
\* run at the time the session starts
EarlierKey == CacheFile("hybrid", "low")
EarlierFiles ==
    [NoFiles EXCEPT ![EarlierKey] =
        Some(EnhancedCacheData("hybrid", "low",
                               CHOOSE recs \in CachePayloads : recs # <<>>,
                               "hybrid", StartTime))]

\* a session of the enhanced system as in BlendInit, for the strategies and risk levels
\* above, started on the cache directory of an earlier run
SessionInit ==
    /\ \E markets \in MarketSnapshots, strategy \in SessionStrategies,
          risk_level \in SessionRiskLevels, surrounding \in Surroundings :
            request = Session(markets, strategy, risk_level, surrounding)
    /\ response = NoResponse
    /\ calls = 0
    /\ cache_files = EarlierFiles
    /\ lookup = NoLookup
    /\ now = StartTime
    /\ DiskIdle
    /\ SocialIdle
    /\ ClientIdle
    /\ TrackerIdle
    /\ ScorerIdle
    /\ YoloIdle

SpecSession == SessionInit /\ [][BlendNext]_vars

\* the two routers of the application serve one process and one cache directory: the calls
\* of a session go to the basic or to the enhanced system
SharedCacheNext ==
    \/ \E max_recommendations \in MaxCounts, force_refresh \in BOOLEAN :
          get_recommendations(request.strategy, max_recommendations, request.risk_level,
                              force_refresh)
    \/ \E max_recommendations \in MaxCounts, force_refresh \in BOOLEAN :
          basic_get_recommendations(request.strategy, max_recommendations,
                                    request.risk_level, force_refresh)
    \/ (0 < calls /\ calls < MaxCalls /\ Tick)

SpecSharedCache == SessionInit /\ [][SharedCacheNext]_vars

\* a market list and a risk level handed to the scorers
ScorerInit ==
    /\ \E markets \in ScoredMarkets, risk_level \in ValidRiskLevels :
          scored = [NoScore EXCEPT !.markets = markets, !.risk_level = risk_level]
    /\ blended = NoBlend
    /\ now = StartTime
    /\ DiskIdle
    /\ SocialIdle
    /\ ClientIdle
    /\ cache_files = NoFiles
    /\ lookup = NoLookup
    /\ TrackerIdle
    /\ BlendIdle
    /\ YoloIdle

ScorerNext ==
    \/ \E max_recommendations \in MaxCounts :
          generate_momentum_recommendations(max_recommendations)
    \/ \E max_recommendations \in MaxCounts :
          generate_mean_reversion_recommendations(max_recommendations)
    \/ arbitrage_analyze

SpecScorers == ScorerInit /\ [][ScorerNext]_vars

\* a market list, a risk level and the answers of the OpenAI model handed to the hybrid
\* model
HybridInit ==
    /\ \E markets \in HybridMarkets, risk_level \in ValidRiskLevels :
          scored = [NoScore EXCEPT !.markets = markets, !.risk_level = risk_level]
    /\ \E answers \in HybridAnswers :
          blended = [NoBlend EXCEPT !.openai_momentum = answers.openai_momentum,
                                    !.openai_mean_reversion = answers.openai_mean_reversion]
    /\ now = StartTime
    /\ DiskIdle
    /\ SocialIdle
    /\ ClientIdle
    /\ cache_files = NoFiles
    /\ lookup = NoLookup
    /\ TrackerIdle
    /\ BlendIdle
    /\ YoloIdle

HybridNext ==
    \/ \E max_recommendations \in QuotaCounts : hybrid_split(max_recommendations)
    \/ \E max_recommendations \in MaxCounts :
          generate_hybrid_strategy_recommendations(max_recommendations)

SpecHybrid == HybridInit /\ [][HybridNext]_vars

\* the longest price history handed to the volatility scorer, and the prices in it
HistoryLength == 6
HistoryPrices == {0, 50, 100}

\* the histories handed in: the last five observations and one before them.  A history of
\* equal prices has std_dev 0 and _calculate_volatility divides by it; it is left out.
Histories ==
    {history \in UNION {[1..n -> HistoryPrices] : n \in (HistoryLength - 1)..HistoryLength} :
        \E i \in 1..Len(history) : history[i] # history[1]}

\* the yes_bid of the market the side-channel scorers are asked about
SideChannelBids == {5, 50, 95}

\* the market the side-channel scorers are asked about, by its yes_bid
SideChannelMarket(yes_bid) ==
    Market("KXBTC-25-T100", "KXBTC", 100, Minimum(yes_bid + 2, MaxPrice), MaxPrice - yes_bid,
           yes_bid, 100)

\* a market with what the side channels say about it: a price history or none, and the
\* answer of the social feed
SideChannelInit ==
    /\ \E yes_bid \in SideChannelBids, feed_data \in SocialFeeds,
          historical_data \in {None} \cup {Some([id \in {"KXBTC-25-T100"} |-> history]) :
                                             history \in Histories} :
          scored = [NoScore EXCEPT !.markets = <<SideChannelMarket(yes_bid)>>,
                                   !.risk_level = "medium",
                                   !.historical_data = historical_data,
                                   !.feed_data = feed_data]
    /\ blended = NoBlend
    /\ now = StartTime
    /\ DiskIdle
    /\ SocialIdle
    /\ ClientIdle
    /\ cache_files = NoFiles
    /\ lookup = NoLookup
    /\ TrackerIdle
    /\ BlendIdle
    /\ YoloIdle

SideChannelNext ==
    \/ scored.volatility = None /\ volatility_analyze
    \/ scored.sentiment = None /\ sentiment_analyze

SpecSideChannel == SideChannelInit /\ [][SideChannelNext]_vars

\* the generation runs of one session that are followed
MaxRuns == 2

\* a session whose generation is run again and again
RunsInit ==
    /\ \E markets \in MarketSnapshots, strategy \in ValidStrategies,
          risk_level \in ValidRiskLevels, surrounding \in Surroundings :
            request = Session(markets, strategy, risk_level, surrounding)
    /\ response = NoResponse
    /\ calls = 0
    /\ cache_files = NoFiles
    /\ lookup = NoLookup
    /\ now = StartTime
    /\ DiskIdle
    /\ SocialIdle
    /\ ClientIdle
    /\ TrackerIdle
    /\ ScorerIdle
    /\ YoloIdle

\* a run, and then the same run again
RunsNext ==
    \E max_recommendations \in MaxCounts :
        /\ Len(blended.runs) < MaxRuns
        /\ blended.runs # <<>> => max_recommendations = blended.runs[1].max_recommendations
        /\ generation_run(max_recommendations)

SpecRuns == RunsInit /\ [][RunsNext]_vars

\* the cache directory without the file
DiskInit ==
    /\ now = StartTime
    /\ DiskIdle
    /\ SocialIdle
    /\ ClientIdle
    /\ cache_files = NoFiles
    /\ lookup = NoLookup
    /\ TrackerIdle
    /\ BlendIdle
    /\ ScorerIdle
    /\ YoloIdle

\* the writers and a reader of one cache file, in any interleaving
DiskNext ==
    \/ \E w \in Writers, recs \in DiskPayloads : cache_write_opens(w, DiskData(recs, now))
    \/ \E w \in Writers :
          \E upto \in 1..(Len(Dumps(disk.writers[w].data)) - 1) : cache_write_flushes(w, upto)
    \/ \E w \in Writers : cache_write_dumps(w)
    \/ \E w \in Writers :
          \E upto \in 0..(Len(Dumps(disk.writers[w].data)) - 1) :
              cache_write_dump_fails(w, upto)
    \/ cache_read

SpecDisk == DiskInit /\ [][DiskNext]_vars

\* a YOLOTradingMode instance as its constructor leaves it
YoloInit ==
    /\ yolo = NewYolo(StartTime)
    /\ now = StartTime
    /\ DiskIdle
    /\ SocialIdle
    /\ ClientIdle
    /\ cache_files = NoFiles
    /\ lookup = NoLookup
    /\ TrackerIdle
    /\ BlendIdle
    /\ ScorerIdle

YoloNext ==
    \/ \E args \in StartArguments : Len(yolo.threads) < MaxThreads /\ start(args)
    \/ stop
    \/ stop_returns
    \/ \E t \in 1..MaxThreads, conditions_met \in BOOLEAN,
          received \in YoloRecommendationSets :
            trading_loop(t, conditions_met, received)
    \/ \E t \in 1..MaxThreads, order_placed \in BOOLEAN : execute_trade(t, order_placed)
    \/ yolo_tick

SpecYolo == YoloInit /\ [][YoloNext]_vars

\* YOLO sessions that are stopped and started again: at most RestartThreads trading threads
\* are ever created, within RestartClock five-minute ticks
RestartThreads == 2
RestartClock == 4

\* the arguments of start() in a restarted session
RestartArguments ==
    {args \in StartArguments :
        /\ args.risk_level = "medium"
        /\ args.max_trades_per_hour = 2
        /\ ~args.market_conditions}

\* what the recommendation system returns in a restarted session
RestartRecommendationSets ==
    {received \in YoloRecommendationSets :
        \A i \in 1..Len(received) : received[i].market_id \in {"KXBTC-25-T100", "KXBTC-25-T200"}}

RestartNext ==
    \/ \E args \in RestartArguments : Len(yolo.threads) < RestartThreads /\ start(args)
    \/ stop
    \/ stop_returns
    \/ \E t \in 1..RestartThreads, received \in RestartRecommendationSets :
            trading_loop(t, TRUE, received)
    \/ \E t \in 1..RestartThreads, order_placed \in BOOLEAN : execute_trade(t, order_placed)
    \/ now < RestartClock /\ yolo_tick

SpecYoloRestart == YoloInit /\ [][RestartNext]_vars

\* what the recommendation system returns to a loop that is followed for repeated
\* markets: the lists of a restarted session, and one that names a market twice, as an
\* answer of the enhanced model may (nothing keeps its markets apart)
RepeatRecommendationSets ==
    RestartRecommendationSets
        \cup {<<Candidate("KXBTC-25-T100", "YES", 3, 90, 300, "High", "", 99, 80),
                Candidate("KXBTC-25-T100", "YES", 1, 90, 100, "Medium", "", 99, 80)>>}

\* one trading thread at a time is created: the instance is started again only after its
\* thread has ended
RepeatNext ==
    \/ \E args \in RestartArguments :
          /\ \A t \in 1..Len(yolo.threads) : yolo.threads[t].pc = "done"
          /\ Len(yolo.threads) < RestartThreads
          /\ start(args)
    \/ stop
    \/ stop_returns
    \/ \E t \in 1..RestartThreads, received \in RepeatRecommendationSets :
            trading_loop(t, TRUE, received)
    \/ \E t \in 1..RestartThreads, order_placed \in BOOLEAN : execute_trade(t, order_placed)
    \/ now < RestartClock /\ yolo_tick

SpecYoloRepeat == YoloInit /\ [][RepeatNext]_vars

\* a KalshiSocialFeed instance from its construction on: calls of get_social_feed with
\* time passing between them
SocialNext ==
    \/ \E force_refresh \in BOOLEAN, fetch_fails \in BOOLEAN :
          social.served < MaxFeedCalls /\ get_social_feed(force_refresh, fetch_fails)
    \/ Tick

SpecSocialFeed == CacheInit /\ [][SocialNext]_vars

\* a KalshiApiClient constructed with some max_retries and retry_delay
ClientInit ==
    /\ \E max_retries \in 0..MaxRetries, retry_delay \in RetryDelays :
          client = NewClient(max_retries, retry_delay)
    /\ now = StartTime
    /\ cache_files = NoFiles
    /\ lookup = NoLookup
    /\ DiskIdle
    /\ SocialIdle
    /\ TrackerIdle
    /\ BlendIdle
    /\ ScorerIdle
    /\ YoloIdle

\* the HTTP attempts of the request in flight
Attempts == \E outcome \in AttemptOutcomes : http_attempt(outcome)

ClientNext ==
    \/ \E signed \in BOOLEAN : make_request(signed)
    \/ (client.attempts < MaxAttempts /\ Attempts)

SpecClient == ClientInit /\ [][ClientNext]_vars

\* the thread that called _make_request runs on: an attempt that can be made is made,
\* and comes to one of its outcomes
SpecClientLive == SpecClient /\ WF_vars(client.attempts < MaxAttempts /\ Attempts)

(***************************************************************************)
(* Properties of the PerformanceTracker                                    *)
(***************************************************************************)

\* the fields update_recommendation_status never assigns
Immutable(rec) ==
    <<rec.id, rec.market_id, rec.strategy, rec.action, rec.entry_price,
      rec.target_exit, rec.stop_loss, rec.confidence, rec.timestamp>>

\* C4: a record closed at exit price X has result win iff (YES and X > entry_price)
\* or (NO and X < entry_price), loss otherwise, and profit_loss X - entry_price
\* for YES, entry_price - X for NO.
C4_CloseOutcome ==
    \A p \in AllPositions :
        LET rec == RecordAt(p)
            wins == \/ (rec.action = "YES" /\ rec.exit_price[1] > rec.entry_price)
                    \/ (rec.action = "NO" /\ rec.exit_price[1] < rec.entry_price)
        IN (rec.status = "closed" /\ rec.exit_price # None)
           => /\ rec.result = (IF wins THEN "win" ELSE "loss")
              /\ rec.action = "YES" => rec.profit_loss = Some(rec.exit_price[1] - rec.entry_price)
              /\ rec.action = "NO" => rec.profit_loss = Some(rec.entry_price - rec.exit_price[1])

\* C4 witness: a YES record closed as a win, and a NO record closed as a loss at its entry price
C4_Witness ==
    /\ \E p \in AllPositions :
          RecordAt(p).action = "YES" /\ RecordAt(p).status = "closed" /\ RecordAt(p).result = "win"
    /\ \E p \in AllPositions :
          /\ RecordAt(p).action = "NO" /\ RecordAt(p).status = "closed"
          /\ RecordAt(p).result = "loss" /\ RecordAt(p).exit_price = Some(RecordAt(p).entry_price)

\* C5: closed and expired are terminal: no step changes the status of a record
\* that is closed or expired.
C5_TerminalStatus ==
    [][\A k \in 1..Len(recommendations) : \A i \in 1..Len(recommendations[k].records) :
        recommendations[k].records[i].status \in {"closed", "expired"}
        => recommendations'[k].records[i].status = recommendations[k].records[i].status
      ]_vars

\* C6: every open record has exit_price, exit_timestamp, result and profit_loss null.
C6_OpenHasNoExit ==
    \A p \in AllPositions :
        RecordAt(p).status = "open"
        => /\ RecordAt(p).exit_price = None
           /\ RecordAt(p).exit_timestamp = None
           /\ RecordAt(p).result = "null"
           /\ RecordAt(p).profit_loss = None

\* C7: the aggregate get_strategy_performance returns for a strategy has the
\* win, loss and open counts of the records now in the ledger for that strategy.
C7_AggregateMatchesLedger ==
    \A strategy \in Strategies :
        LET aggregate == get_strategy_performance(strategy)
            records == RecordsOf(strategy)
        IN /\ aggregate.win_count = Count(records, "result", "win")
           /\ aggregate.loss_count = Count(records, "result", "loss")
           /\ aggregate.open_count = Count(records, "status", "open")

\* C8: update_recommendation_status with an id that matches no record returns
\* False and leaves every record and every stored aggregate unchanged.
C8_UnknownIdReturnsFalse ==
    [][\A recommendation_id \in RecommendationIds :
        NoMatch(recommendation_id)
        => \A status \in Statuses, exit_price \in ExitPrices, notes \in NotesArgs :
              update_recommendation_status(recommendation_id, status, exit_price, notes)
              => /\ ret' = "False"
                 /\ recommendations' = recommendations
                 /\ performance' = performance
                 /\ saved_file' = saved_file
      ]_vars

\* C8 witness: an update returned False on a ledger that holds a record
C8_Witness == ret = "False" /\ AllPositions # {}

\* C9: no step removes a record, and a step changes at most one record, the
\* one its id matches first, and of that record only status, exit_price,
\* exit_timestamp, result, profit_loss and notes: its other fields and every
\* other record stay as they were.
C9_Frame ==
    [][/\ Len(recommendations') >= Len(recommendations)
       /\ \A k \in 1..Len(recommendations) :
            /\ recommendations'[k].strategy = recommendations[k].strategy
            /\ Len(recommendations'[k].records) >= Len(recommendations[k].records)
            /\ \A i \in 1..Len(recommendations[k].records) :
                  Immutable(recommendations'[k].records[i])
                      = Immutable(recommendations[k].records[i])
       /\ LET changed == {p \in AllPositions :
                             recommendations'[p[1]].records[p[2]] # RecordAt(p)}
          IN /\ Cardinality(changed) <= 1
             /\ \A p \in changed : IsFirstMatch(p[1], p[2], RecordAt(p).id)
      ]_vars

\* C9 witness: an update succeeded on a ledger of two records, one still untouched
C9_Witness ==
    /\ ret = "True"
    /\ TotalRecords >= 2
    /\ \E p \in AllPositions : RecordAt(p).status # "open" /\ RecordAt(p).notes = "settled"
    /\ \E p \in AllPositions : RecordAt(p) = [RecordAt(p) EXCEPT !.status = "open", !.notes = ""]
                              /\ RecordAt(p).exit_price = None

(***************************************************************************)
(* Properties of the recommendation cache                                  *)
(***************************************************************************)

\* C10: a lookup for (strategy, risk_level) is a hit exactly when a complete entry is stored
\* for the key and now - entry.timestamp <= cache_ttl, and a hit hands out what is stored;
\* a lookup after the TTL is a miss, and no lookup changes or removes a stored entry
C10_LookupHitsWithinTtl ==
    /\ [](lookup # NoLookup =>
            LET file == cache_files[lookup.key]
                fresh == /\ file # None
                         /\ file[1].complete
                         /\ now - file[1].timestamp <= cache_ttl
            IN /\ (lookup.value # None) <=> fresh
               /\ fresh => lookup.value = IF lookup.system = "enhanced" THEN file
                                          ELSE Some(file[1].recommendations))
    /\ [][lookup' # NoLookup => cache_files' = cache_files]_vars

\* a lookup that missed on an entry that is complete, expired and still stored
C10_Witness ==
    /\ lookup # NoLookup
    /\ lookup.value = None
    /\ cache_files[lookup.key] # None
    /\ cache_files[lookup.key][1].complete
    /\ now - cache_files[lookup.key][1].timestamp > cache_ttl

(***************************************************************************)
(* Properties of the recommendation generation                             *)
(***************************************************************************)

\* C1: the list get_recommendations returns holds no two entries with the same market_id,
\* whatever the strategy, the risk level and the markets
C1_NoDuplicateMarket ==
    response.status = "returned" =>
        \A i, j \in 1..Len(response.recommendations) :
            response.recommendations[i].market_id = response.recommendations[j].market_id
                => i = j

\* C2: the list get_recommendations returns has at most max_recommendations entries,
\* whichever source produced it
C2_AtMostMaxCount ==
    response.status = "returned" =>
        Len(response.recommendations) <= response.max_recommendations

\* C3: a list returned for risk level low holds only confidence High, and a list returned
\* for risk level medium holds no confidence Low
C3_RiskLevelFiltersConfidence ==
    response.status = "returned" =>
        \A i \in 1..Len(response.recommendations) :
            /\ request.risk_level = "low" => response.recommendations[i].confidence = "High"
            /\ request.risk_level = "medium" => response.recommendations[i].confidence # "Low"

(***************************************************************************)
(* Properties of the cached get_recommendations                            *)
(***************************************************************************)

\* the step is a get_recommendations call with the session's strategy and risk level and
\* this force_refresh (the response keeps force_refresh and max_recommendations of the call)
IsCall(force_refresh) ==
    /\ calls' = calls + 1
    /\ response'.strategy = request.strategy
    /\ response'.risk_level = request.risk_level
    /\ response'.force_refresh = force_refresh

\* C11: with caching enabled, when a get_recommendations call with force_refresh false
\* has returned and the next call names the same strategy, risk level and
\* max_recommendations, again with force_refresh false and within the TTL of the first,
\* the second call returns the same list, served from the cache without a market fetch
\* or a recommendation source, an empty first list included.
C11_SecondCallServedFromCache ==
    [][(/\ cache_enabled
        /\ response.status = "returned"
        /\ ~response.force_refresh
        /\ now - response.timestamp <= cache_ttl
        /\ IsCall(FALSE)
        /\ response'.max_recommendations = response.max_recommendations)
       => /\ response'.status = "returned"
          /\ response'.cached
          /\ ~response'.fetched
          /\ response'.tried = <<>>
          /\ response'.recommendations = response.recommendations
      ]_vars

\* what _cache_recommendations stores for the response of a generating call at time t
EntryOf(resp, t) ==
    Some(EnhancedCacheData(request.strategy, request.risk_level, resp.recommendations,
                           resp.source, t))

\* the response comes from the generation block, and the session's cache writes work
GeneratedAndStored(resp) ==
    /\ resp.status = "returned"
    /\ ~resp.cached
    /\ resp.source # "none"
    /\ request.failure \notin {"cache_open", "cache_dump"}

C15_InvalidArgumentRaisesFirst ==
    [][(/\ calls' = calls + 1
        /\ \/ response'.strategy \notin ValidStrategies
           \/ response'.risk_level \notin ValidRiskLevels)
       => /\ response'.status = "raised"
          /\ response'.error = "ValueError"
          /\ ~response'.cached
          /\ ~response'.fetched
          /\ response'.tried = <<>>
          /\ cache_files' = cache_files
      ]_vars

\* C15 witness: a call with the session's strategy and an unknown risk level has raised
\* ValueError while the cache holds the entry an earlier call of the session stored
C15_Witness ==
    /\ response.status = "raised"
    /\ response.error = "ValueError"
    /\ response.strategy = request.strategy
    /\ response.risk_level \notin ValidRiskLevels
    /\ cache_files[CacheFile(request.strategy, request.risk_level)] \notin {None, TornFile}
    /\ cache_files[EarlierKey] # None

(***************************************************************************)
(* Properties of the failures inside get_recommendations                   *)
(***************************************************************************)

\* C13: for a valid strategy and risk level get_recommendations never raises: a failure
\* of the market-data source or of a recommendation source yields a returned, possibly
\* empty, list; the only exception of a call is the ValueError of the validation.
C13_RaisesOnlyOnInvalidArgument ==
    response.status = "raised" => response.error = "ValueError"

\* C14: with strategy combined and one scorer raising, the returned list is made of the
\* risk-admissible candidates of the scorers that did not raise, as many of them as
\* max_recommendations allows.
C14_FailedScorerContributesNothing ==
    (/\ request.strategy = "combined"
     /\ request.failure = "sentiment_scorer"
     /\ response.status = "returned"
     /\ response.tried = <<"strategy_manager">>)
    => LET others == FilterByRiskLevel(ArbitrageAnalyze(request.markets)
                                           \o VolatilityAnalyze(request.markets),
                                       request.risk_level)
       IN /\ Len(response.recommendations)
                 = Minimum(Len(others), response.max_recommendations)
          /\ \A i \in 1..Len(response.recommendations) :
                 response.recommendations[i] \in Range(others)

\* C17: when the write of the cache entry fails during get_recommendations, the call
\* returns the recommendations it generated and does not raise, and the cache files of
\* the other keys are as they were.
C17_FailedWriteStillReturns ==
    [][(/\ calls' = calls + 1
        /\ request.failure \in {"cache_open", "cache_dump"}
        /\ response'.strategy = request.strategy
        /\ response'.risk_level = request.risk_level
        /\ response'.fetched
        /\ request.markets # <<>>)
       => LET result == Generated(request, response'.max_recommendations)
          IN /\ response'.status = "returned"
             /\ ~response'.cached
             /\ response'.recommendations = result.recommendations
             /\ response'.source = result.source
             /\ \A key \in DOMAIN cache_files :
                    key # CacheFile(request.strategy, request.risk_level)
                    => cache_files'[key] = cache_files[key]
      ]_vars

\* C17 witness: a call has returned a non-empty generated list while its json.dump failed:
\* the file of its own key is torn, the entry of the other key is the one stored before
C17_Witness ==
    /\ request.failure = "cache_dump"
    /\ response.status = "returned"
    /\ response.fetched
    /\ response.recommendations # <<>>
    /\ cache_files[CacheFile(request.strategy, request.risk_level)] = TornFile
    /\ cache_files[EarlierKey] = EarlierFiles[EarlierKey]

\* the recommendation sources of get_recommendations for the strategies the models
\* answer, in the order of the code: the enhanced model when an API key is configured,
\* the hybrid model, the rule-based model
SourceChain(req) ==
    (IF req.openai_enabled /\ use_enhanced_model THEN <<"enhanced_openai">> ELSE <<>>)
        \o <<"hybrid", "rule_based">>

\* C16: for the strategies momentum, mean-reversion and hybrid the sources are tried in
\* the order external model, hybrid model, rule-based model, the next one whenever the
\* current one raises or returns an empty list: the sources a generating call tried are
\* the chain up to the source of the result, and the whole chain when the result is empty.
C16_NextSourceOnFailureOrEmpty ==
    (/\ request.strategy \in {"momentum", "mean-reversion", "hybrid"}
     /\ response.status = "returned"
     /\ response.strategy = request.strategy
     /\ response.fetched
     /\ response.source # "none")
    => /\ response.tried # <<>>
       /\ response.tried = Prefix(SourceChain(request), Len(response.tried))
       /\ response.source = response.tried[Len(response.tried)]
       /\ response.recommendations = <<>> => response.tried = SourceChain(request)

(***************************************************************************)
(* Properties of the scorers                                               *)
(***************************************************************************)

\* the candidates of a list for a market
CandidatesFor(recs, market_id) == {rec \in Range(recs) : rec.market_id = market_id}

\* C18: for every market whose YES ask is above 80 or below 20 and for which the momentum
\* scorer and the mean-reversion scorer both emit a candidate, the two candidates have
\* opposite actions: above 80 momentum says YES with confidence High and mean-reversion
\* NO, below 20 momentum says NO with confidence High and mean-reversion YES.
C18_ScorersDisagreeOnExtremes ==
    (scored.momentum # None /\ scored.mean_reversion # None) =>
        \A i \in 1..Len(scored.markets) :
            LET market == scored.markets[i]
            IN \A m \in CandidatesFor(scored.momentum[1], market.id),
                  r \in CandidatesFor(scored.mean_reversion[1], market.id) :
                    /\ market.yes_ask > 80
                       => m.action = "YES" /\ m.confidence = "High" /\ r.action = "NO"
                    /\ market.yes_ask < 20
                       => m.action = "NO" /\ m.confidence = "High" /\ r.action = "YES"
                    /\ (market.yes_ask > 80 \/ market.yes_ask < 20) => m.action # r.action

\* C18 witness: both scorers have emitted a candidate for a market asked at 90 and for a
\* market asked at 10 of the same list
C18_Witness ==
    /\ scored.momentum # None
    /\ scored.mean_reversion # None
    /\ \E i, j \in 1..Len(scored.markets) :
          /\ scored.markets[i].yes_ask = 90
          /\ scored.markets[j].yes_ask = 10
          /\ \A k \in {i, j} :
                /\ CandidatesFor(scored.momentum[1], scored.markets[k].id) # {}
                /\ CandidatesFor(scored.mean_reversion[1], scored.markets[k].id) # {}

\* market1 and market2 are neighbours by strike in the scored list: market1 the lower
AdjacentStrikes(market1, market2) ==
    /\ market1.strike < market2.strike
    /\ ~\E between \in Range(scored.markets) :
          market1.strike < between.strike /\ between.strike < market2.strike

\* the positions of the arbitrage output that hold this action on this market
Legs(market, action) ==
    {i \in 1..Len(scored.arbitrage[1]) :
        /\ scored.arbitrage[1][i].market_id = market.id
        /\ scored.arbitrage[1][i].action = action}

\* the strike of the market a candidate names
StrikeOf(rec) == (CHOOSE market \in Range(scored.markets) : market.id = rec.market_id).strike

\* the arbitrage output is, pair by pair in strike order, a YES leg on the lower strike
\* followed by a NO leg on the higher strike for the neighbours in opportunities, and
\* nothing else
EmitsExactly(opportunities) ==
    LET out == scored.arbitrage[1]
    IN /\ \A pair \in opportunities :
              /\ Cardinality(Legs(pair[1], "YES")) = 1
              /\ Cardinality(Legs(pair[2], "NO")) = 1
              /\ \E i \in Legs(pair[1], "YES") : i + 1 \in Legs(pair[2], "NO")
       /\ Len(out) = 2 * Cardinality(opportunities)
       /\ \A i, j \in 1..Len(out) :
              (i < j /\ out[i].action = "YES" /\ out[j].action = "YES")
              => StrikeOf(out[i]) < StrikeOf(out[j])

\* the neighbours by strike of the scored list
Neighbours ==
    {pair \in Range(scored.markets) \X Range(scored.markets) :
        AdjacentStrikes(pair[1], pair[2])}

C20_TotalSpendCapped ==
    yolo.is_active => yolo.total_spent <= yolo.max_total_spend

(***************************************************************************)
(* Properties of the YOLO trading loop's limits                            *)
(***************************************************************************)

\* the trades of the history made in the hour that begins at time t
TradesInHourFrom(history, t) ==
    {k \in 1..Len(history) :
        t <= history[k].timestamp /\ history[k].timestamp < t + HourTicks}

\* C21: in any run of the YOLO trading loop, the successful trades made within any
\* rolling window of 3600 seconds are at most max_trades_per_hour.
C21_RollingHourCapped ==
    \A i \in 1..Len(yolo.trade_history) :
        Cardinality(TradesInHourFrom(yolo.trade_history, yolo.trade_history[i].timestamp))
            <= yolo.max_trades_per_hour

\* thread t goes from the head of the while loop into the for loop
EntersForLoop(t) ==
    yolo.threads[t].pc = "loop" /\ yolo'.threads[t].pc = "trade"

\* thread t has placed an order that was added to the trade history
PlacesTrade(t) ==
    /\ yolo.threads[t].pc = "trade"
    /\ yolo'.threads[t] # yolo.threads[t]
    /\ Len(yolo'.trade_history) > Len(yolo.trade_history)

\* C22: once the stop signal is set, the loop begins no new trade (and ends). A trading
\* thread that is followed by a later one has had the signal set in its lifetime,
\* because start() refuses while is_active holds and only stop() clears is_active after
\* setting the signal: such a thread neither enters the for loop nor places a trade.
C22_NoTradeAfterStopSignal ==
    [][\A t \in 1..Len(yolo.threads) :
          t < Len(yolo.threads) => ~EntersForLoop(t) /\ ~PlacesTrade(t)]_vars

(***************************************************************************)
(* Properties of the tracker's reports                                     *)
(***************************************************************************)

\* the seconds a timeframe looks back
WindowSeconds(timeframe) ==
    IF timeframe = "day" THEN DaySeconds
    ELSE IF timeframe = "week" THEN WeekSeconds
    ELSE MonthSeconds

\* the records of the ledger a report of the strategy ("all": every strategy) and the
\* timeframe is about at the present time
ReportedPositions(strategy, timeframe) ==
    {p \in AllPositions :
        /\ strategy = "all" \/ recommendations[p[1]].strategy = strategy
        /\ timeframe = "all" \/ RecordAt(p).timestamp >= now - WindowSeconds(timeframe)}

\* C23: get_performance_by_timeframe computes its metrics over exactly the records of the
\* ledger (of the strategy, or of every strategy when none is given) with timestamp >=
\* now - window, and over every such record when the window is all; recommendation_count
\* for the window all is the number of records in the ledger.
C23_TimeframeOverExactRecords ==
    report # None =>
        LET about == ReportedPositions(report[1].strategy, report[1].timeframe)
        IN /\ report[1].recommendation_count = Cardinality(about)
           /\ report[1].win_count = Cardinality({p \in about : RecordAt(p).result = "win"})
           /\ report[1].loss_count = Cardinality({p \in about : RecordAt(p).result = "loss"})
           /\ report[1].open_count = Cardinality({p \in about : RecordAt(p).status = "open"})
           /\ (report[1].timeframe = "all" /\ report[1].strategy = "all")
                  => report[1].recommendation_count = TotalRecords

(***************************************************************************)
(* Properties of the hybrid model                                          *)
(***************************************************************************)

SubStrategyCandidates(strategy, max_recommendations) ==
    LET quota == IF strategy = "momentum"
                 THEN MomentumCount(max_recommendations, scored.risk_level)
                 ELSE MeanReversionCount(max_recommendations, scored.risk_level)
        answer == IF strategy = "momentum" THEN blended.openai_momentum
                  ELSE blended.openai_mean_reversion
    IN Tagged(IF answer = <<>> \/ Len(answer) < quota
              THEN RuleBasedGenerate(scored.markets, strategy, quota, scored.risk_level)
              ELSE answer,
              strategy)

\* a list without the later occurrences of a market_id seen before
FirstOccurrences(recs) ==
    SelectSeqIdx(recs,
                 {i \in 1..Len(recs) :
                     \A j \in 1..(i - 1) : recs[j].market_id # recs[i].market_id}, 1)

\* what the blend of the claim is for max_recommendations
DedupedAndCut(max_recommendations) ==
    Prefix(FirstOccurrences(SubStrategyCandidates("momentum", max_recommendations)
                                \o SubStrategyCandidates("mean-reversion", max_recommendations)),
           max_recommendations)

\* C25: the hybrid blend's output is exactly the momentum candidates followed by the
\* mean-reversion candidates, without every later occurrence of a market_id seen before,
\* cut at max_count; a market both sub-strategies propose appears once, with the momentum
\* candidate.
C25_BlendIsDedupedAndCut ==
    blended.hybrid # None =>
        blended.hybrid[1].recommendations
            = DedupedAndCut(blended.hybrid[1].max_recommendations)

(***************************************************************************)
(* Properties of the ranking                                               *)
(***************************************************************************)

\* C26: ranked candidates are ordered by confidence rank (High 3, Medium 2, Low 1)
\* descending, and candidates of equal confidence by cost descending. The result the
\* StrategyManager produced is ranked so.
C26_RankedByConfidenceThenCost ==
    (/\ response.status = "returned"
     /\ ~response.cached
     /\ response.source \in {"arbitrage", "volatility", "sentiment", "combined"}) =>
        \A i, j \in 1..Len(response.recommendations) :
            i < j =>
                LET first == response.recommendations[i]
                    second == response.recommendations[j]
                IN \/ ConfidenceRank(first.confidence) > ConfidenceRank(second.confidence)
                   \/ /\ ConfidenceRank(first.confidence) = ConfidenceRank(second.confidence)
                      /\ first.cost >= second.cost

(***************************************************************************)
(* Properties of the side-channel scorers                                  *)
(***************************************************************************)

\* the volatility metrics of the market scored, on the history handed in
ScoredVolatility ==
    CalculateVolatility(scored.markets[1], scored.historical_data[1][scored.markets[1].id])

\* C27: for a high-volatility market the volatility scorer emits a trend-continuation
\* candidate only when the last 5 observations are monotonic (YES for rising, NO for
\* falling), a mean-reversion candidate only when the price is more than 1.5 standard
\* deviations from the mean and there is no monotonic trend, and nothing when neither holds.
C27_VolatilityFork ==
    (/\ scored.historical_data # None
     /\ scored.volatility # None
     /\ ScoredVolatility.is_high_volatility) =>
        LET data == ScoredVolatility
            recent_prices == LET history == scored.historical_data[1][scored.markets[1].id]
                             IN SubSeq(history, Len(history) - 4, Len(history))
            emitted == scored.volatility[1]
        IN \A i \in 1..Len(emitted) :
              \/ IsUptrend(recent_prices) /\ emitted[i].action = "YES"
              \/ IsDowntrend(recent_prices) /\ emitted[i].action = "NO"
              \/ data.expect_reversion

\* the candidates the scorers have emitted for the market list scored
EmittedCandidates ==
    UNION {{emitted[1][i] : i \in 1..Len(emitted[1])} :
              emitted \in {scored.momentum, scored.mean_reversion, scored.arbitrage,
                           scored.volatility, scored.sentiment} \ {None}}

\* C28: every candidate emitted by any scorer (momentum, mean-reversion, arbitrage,
\* volatility, sentiment), for every market with prices in 0..100, has target_exit and
\* stop_loss within the price range 0..100.
C28_ExitsWithinPriceRange ==
    (\A i \in 1..Len(scored.markets) :
        /\ scored.markets[i].yes_ask \in 0..MaxPrice
        /\ scored.markets[i].no_ask \in 0..MaxPrice
        /\ scored.markets[i].yes_bid \in 0..MaxPrice) =>
        \A candidate \in EmittedCandidates :
            /\ candidate.target_exit \in 0..MaxPrice
            /\ candidate.stop_loss \in 0..MaxPrice

(***************************************************************************)
(* Determinism of the blend                                                *)
(***************************************************************************)

\* the structural fields of the recommendations of a run, in order
Structure(run) ==
    [i \in 1..Len(run.recommendations) |->
        <<run.recommendations[i].market_id, run.recommendations[i].action,
          run.recommendations[i].confidence, run.recommendations[i].contracts>>]

C30_ReadsCompleteEntryOrMiss ==
    disk.read.done => (disk.read.value = None \/ disk.read.value[1] \in disk.handed)

(***************************************************************************)
(* The ledger file                                                         *)
(***************************************************************************)

\* C31: after every record_recommendation or update_recommendation_status whose file write
\* succeeds, the persisted ledger file equals the in-memory ledger (records and
\* aggregates): a new PerformanceTracker loading the file observes the same.
C31_FileEqualsLedger ==
    /\ LoadPerformanceData(saved_file).recommendations = recommendations
    /\ LoadPerformanceData(saved_file).performance = performance


(***************************************************************************)
(* The cache directory shared by the two recommendation systems           *)
(***************************************************************************)

\* C32: whichever of the two systems stored the entry of a key, a call of either system
\* with valid arguments that finds it returns a result or treats it as a miss; the call
\* never raises because of the entry (a KeyError on reading it)
C32_SharedEntryNeverRaises ==
    ~(response.status = "raised" /\ response.error = "KeyError")

(***************************************************************************)
(* Cache history                                                           *)
(***************************************************************************)

\* what the call of the response would return with force_refresh=true on the markets of
\* the session: lines 113-193 of get_recommendations
FreshRecommendations ==
    IF request.markets = <<>> THEN <<>>
    ELSE Generated([request EXCEPT !.strategy = response.strategy,
                                   !.risk_level = response.risk_level],
                   response.max_recommendations).recommendations

\* C33: the result does not depend on cache history: for unchanged market data, a call
\* with force_refresh=false returns as many recommendations as the same call with
\* force_refresh=true would, even when the cache entry was written by an earlier call
\* with a smaller max_count
C33_CountIndependentOfCacheHistory ==
    (response.status = "returned" /\ ~response.force_refresh /\ request.failure = "none")
        => Len(response.recommendations) = Len(FreshRecommendations)

(***************************************************************************)
(* Wins and closed records                                                 *)
(***************************************************************************)

\* C34: in every stored strategy aggregate the number of wins counted never exceeds the
\* number of closed records of that strategy, so accuracy lies between 0 and 100, after
\* any sequence of record and status-update operations
C34_WinsWithinClosed ==
    \A strategy \in DOMAIN performance :
        /\ performance[strategy].win_count
               <= Count(RecordsOf(strategy), "status", "closed")
        /\ 0 <= performance[strategy].accuracy.num
        /\ performance[strategy].accuracy.num <= 100 * performance[strategy].accuracy.den

(***************************************************************************)
(* Record ids                                                              *)
(***************************************************************************)

\* C35: no two records in the ledger share an id, so that update_recommendation_status
\* reaches every recorded recommendation and mutates exactly the record of the id
C35_IdsUnique ==
    \A p \in AllPositions : \A q \in AllPositions :
        p # q => RecordAt(p).id # RecordAt(q).id

(***************************************************************************)
(* The trading threads of a YOLOTradingMode instance                       *)
(***************************************************************************)

\* the trading-loop threads that have not left _trading_loop
RunningThreads == {t \in 1..Len(yolo.threads) : yolo.threads[t].pc # "done"}

\* C36: for any sequence of start() and stop() calls on one instance, at most one
\* trading-loop thread is executing at any time; a start() issued after stop() returned
\* never runs alongside a loop of the previous session
C36_AtMostOneLoop == Cardinality(RunningThreads) <= 1

\* C37: is_active, as get_status reports it, is true exactly when a trading loop is
\* running: after the loop ends on its own is_active is false and start() is accepted
C37_ActiveIffLoopRuns == yolo.is_active <=> RunningThreads # {}

\* C38: the trade history never contains two successful trades with the same market_id,
\* whatever recommendation sets the loop receives
C38_MarketTradedOnce ==
    \A i \in 1..Len(yolo.trade_history) : \A j \in 1..Len(yolo.trade_history) :
        i # j => yolo.trade_history[i].market_id # yolo.trade_history[j].market_id

(***************************************************************************)
(* The social feed                                                         *)
(***************************************************************************)

\* C39: get_social_feed fetches fresh data iff there is no cached feed, force_refresh is
\* set, or the cached feed is older than its TTL; if the fetch fails and a cached feed
\* exists, the stale cached feed is returned and its fetch time is left unchanged (so
\* the next call retries); only when no cached feed exists is an error result with
\* empty insights returned
C39_FeedRefresh ==
    [][social'.served = social.served + 1 =>
          LET call == social'.call
              returned == call.ret[1]
          IN /\ call.fetched <=> \/ social.cached_feed_data = None
                                 \/ call.force_refresh
                                 \/ now - social.last_fetch_time > social_cache_ttl
             /\ call.ret # None
             /\ (call.fetched /\ call.failed /\ social.cached_feed_data # None)
                    => /\ returned = social.cached_feed_data[1]
                       /\ social'.cached_feed_data = social.cached_feed_data
                       /\ social'.last_fetch_time = social.last_fetch_time
             /\ (returned.status = "error" /\ ~returned.insights)
                    <=> (call.fetched /\ call.failed /\ social.cached_feed_data = None)
             /\ (call.fetched /\ ~call.failed)
                    => /\ returned = AnalyzedFeed(now)
                       /\ social'.cached_feed_data = Some(returned)
                       /\ social'.last_fetch_time = now
             /\ ~call.fetched => returned = social.cached_feed_data[1]]_vars

\* a fetch failed on an instance holding a feed older than the TTL: the stale feed was
\* returned and the fetch time kept
C39_Witness ==
    /\ social.call.fetched /\ social.call.failed /\ ~social.call.force_refresh
    /\ social.cached_feed_data # None
    /\ social.call.ret = social.cached_feed_data
    /\ now - social.last_fetch_time > social_cache_ttl

(***************************************************************************)
(* The retry loop of the Kalshi client                                     *)
(***************************************************************************)

\* C40: _make_request always terminates after at most max_retries + 1 HTTP attempts, for
\* any mix of rate-limit (429) responses and request errors: it either returns the parsed
\* response of a successful attempt or raises once the retry budget is used up
C40_TerminatesWithinBudget ==
    /\ [](client.attempts <= client.max_retries + 1)
    /\ [](client.pc = "returned" => client.last = "ok")
    /\ []((client.pc = "raised" /\ client.error # "ValueError")
              => (client.last # "ok" /\ client.attempts = client.max_retries + 1))
    /\ (client.pc = "running" ~> client.pc \in {"returned", "raised"})

\* a request that met both rate limits and request errors and raised after
\* max_retries + 1 attempts
C40_Witness ==
    /\ client.pc = "raised"
    /\ client.seen = {"rate_limited", "request_error"}
    /\ client.max_retries = MaxRetries
    /\ client.attempts = client.max_retries + 1

========================================================================
